---- MODULE Spec2Model ----
(***************************************************************************)
(* Model of the BankersGPS chatbot backend (Chatbot v2.0.0): the document   *)
(* cache (getDocumentContentCached, refreshDocuments, readAllDocuments,     *)
(* getAllSupportedFiles, generateContentSignature) and the chat request     *)
(* handler (handleChatRequest, chat).                                       *)
(*                                                                         *)
(* Strings are sequences of UTF-16 code units.  The texts of the model are  *)
(* written over letters, '=', '.', '(', ')', '~', '$', '/', space and       *)
(* newline: they hold no digit and none of the words "Page", "Generated",   *)
(* "Last updated", "Created", "Document ID", "Version", so the masking      *)
(* regular expressions of normalizeDocumentContent match nowhere and the    *)
(* function acts through its whitespace rules alone.                        *)
(***************************************************************************)
EXTENDS Integers, Sequences, FiniteSets, TLC

(***************************************************************************)
(* Nullable values: JavaScript null is None, a value v is Some(v).          *)
(***************************************************************************)
None == <<>>
Some(v) == <<v>>
IsNull(o) == o = <<>>
Val(o) == o[1]

(***************************************************************************)
(* String helpers.                                                          *)
(***************************************************************************)
\* \s of the regular expressions, restricted to the code units in use
IsWs(c) == c \in {32, 10, 9, 12, 13}

\* String.prototype.trim
RECURSIVE TrimLeft(_)
TrimLeft(s) ==
  IF s = <<>> THEN <<>>
  ELSE IF IsWs(Head(s)) THEN TrimLeft(Tail(s)) ELSE s

RECURSIVE TrimRight(_)
TrimRight(s) ==
  IF s = <<>> THEN <<>>
  ELSE IF IsWs(s[Len(s)]) THEN TrimRight(SubSeq(s, 1, Len(s) - 1)) ELSE s

Trim(s) == TrimRight(TrimLeft(s))

\* .replace(/\s+/g, ' ') on the characters lo..hi of s: a run of white space
\* gives one space, where it begins
RECURSIVE CollapseWsIn(_, _, _)
CollapseWsIn(s, lo, hi) ==
  IF lo > hi THEN <<>>
  ELSE IF lo = hi
       THEN IF ~IsWs(s[lo]) THEN <<s[lo]>>
            ELSE IF lo > 1 /\ IsWs(s[lo - 1]) THEN <<>> ELSE <<32>>
       ELSE CollapseWsIn(s, lo, (lo + hi) \div 2)
              \o CollapseWsIn(s, (lo + hi) \div 2 + 1, hi)

\* .replace(/\s+/g, ' ')
CollapseWs(s) == CollapseWsIn(s, 1, Len(s))

\* a string is truthy when it is not empty; null is falsy
Truthy(o) == ~IsNull(o) /\ Val(o) # <<>>

\* String.prototype.toLowerCase on the code units in use
ToLower(s) == [i \in 1..Len(s) |-> IF s[i] >= 65 /\ s[i] <= 90 THEN s[i] + 32 ELSE s[i]]

\* path.extname: from the last '.' (46) to the end, '' when there is none or
\* when the only '.' is the first character
RECURSIVE LastDot(_, _)
LastDot(s, i) ==
  IF i = 0 THEN 0 ELSE IF s[i] = 46 THEN i ELSE LastDot(s, i - 1)

extname(s) ==
  LET d == LastDot(s, Len(s))
  IN IF d <= 1 THEN <<>> ELSE SubSeq(s, d, Len(s))

\* String.prototype.startsWith
startsWith(s, pre) == Len(s) >= Len(pre) /\ SubSeq(s, 1, Len(pre)) = pre

(***************************************************************************)
(* cleanPdfText: after the first replace no form feed and no newline is     *)
(* left, so the second and third replace change nothing; the fourth strips  *)
(* a trailing blank, and trim() the leading one.                            *)
(***************************************************************************)
RECURSIVE StripTrailingBlanks(_)
StripTrailingBlanks(s) ==
  IF s = <<>> THEN <<>>
  ELSE IF s[Len(s)] \in {32, 9} THEN StripTrailingBlanks(SubSeq(s, 1, Len(s) - 1)) ELSE s

cleanPdfText(text) == Trim(StripTrailingBlanks(CollapseWs(text)))

(***************************************************************************)
(* The regular expressions of normalizeDocumentContent.  Each one is an     *)
(* operator that gives the length of the match that starts at position i of *)
(* s, 0 when none starts there; String.prototype.replace with the g flag    *)
(* takes the matches from left to right, each on the text as it was.        *)
(***************************************************************************)
At(s, i) == IF i >= 1 /\ i <= Len(s) THEN s[i] ELSE 0

IsDigit(c) == c >= 48 /\ c <= 57
IsLetter(c) == (c >= 65 /\ c <= 90) \/ (c >= 97 /\ c <= 122)
\* \w
IsWordChar(c) == IsDigit(c) \/ IsLetter(c) \/ c = 95
\* [\d\.]
IsDigitOrDot(c) == IsDigit(c) \/ c = 46
\* . : any character but a line terminator
IsDot(c) == c # 0 /\ c # 10 /\ c # 13
LowerOf(c) == IF c >= 65 /\ c <= 90 THEN c + 32 ELSE c

\* how many characters from position i on are of the class C
RunOf(s, i, C(_)) ==
  (CHOOSE j \in i..(Len(s) + 1) :
     /\ ~C(At(s, j))
     /\ \A k \in i..(j - 1) : C(At(s, k))) - i

DigitsAt(s, i, k) == \A j \in i..(i + k - 1) : IsDigit(At(s, j))
LitAt(s, i, lit) == \A k \in 1..Len(lit) : At(s, i + k - 1) = lit[k]
\* the i flag: lit is in lower case
LitAtI(s, i, lit) == \A k \in 1..Len(lit) : LowerOf(At(s, i + k - 1)) = lit[k]

\* \d{4}-\d{2}-\d{2}
IsoDateAt(s, i) ==
  /\ DigitsAt(s, i, 4) /\ At(s, i + 4) = 45
  /\ DigitsAt(s, i + 5, 2) /\ At(s, i + 7) = 45
  /\ DigitsAt(s, i + 8, 2)

\* \d{2}:\d{2}:\d{2}
ClockAt(s, i) ==
  /\ DigitsAt(s, i, 2) /\ At(s, i + 2) = 58
  /\ DigitsAt(s, i + 3, 2) /\ At(s, i + 5) = 58
  /\ DigitsAt(s, i + 6, 2)

\* the first replacement without its group for the milliseconds
TimestampZWithoutFraction(s, i) ==
  IF IsDigit(At(s, i)) /\ IsoDateAt(s, i) /\ At(s, i + 10) = 84 /\ ClockAt(s, i + 11)
     /\ At(s, i + 19) = 90
  THEN 20 ELSE 0

\* /\d{4}-\d{2}-\d{2}T\d{2}:\d{2}:\d{2}(?:\.\d{3})?Z/g
TimestampZ(s, i) ==
  IF IsDigit(At(s, i)) /\ IsoDateAt(s, i) /\ At(s, i + 10) = 84 /\ ClockAt(s, i + 11)
  THEN IF At(s, i + 19) = 46 /\ DigitsAt(s, i + 20, 3) /\ At(s, i + 23) = 90 THEN 24
       ELSE IF At(s, i + 19) = 90 THEN 20 ELSE 0
  ELSE 0

\* /\d{4}-\d{2}-\d{2}\s+\d{2}:\d{2}:\d{2}/g
TimestampSpaced(s, i) ==
  IF IsDigit(At(s, i)) /\ IsoDateAt(s, i) /\ IsWs(At(s, i + 10))
  THEN LET w == RunOf(s, i + 10, IsWs)
       IN IF ClockAt(s, i + 10 + w) THEN 18 + w ELSE 0
  ELSE 0

\* /\d{1,2}[\/\-]\d{1,2}[\/\-]\d{2,4}/g with d1 and d2 digits in its first
\* two groups: the length of the match, 0 when there is none
NumericDateOf(s, i, d1, d2) ==
  IF /\ DigitsAt(s, i, d1) /\ At(s, i + d1) \in {47, 45}
     /\ DigitsAt(s, i + d1 + 1, d2) /\ At(s, i + d1 + 1 + d2) \in {47, 45}
     /\ DigitsAt(s, i + d1 + d2 + 2, 2)
  THEN LET n == RunOf(s, i + d1 + d2 + 2, IsDigit)
       IN d1 + d2 + 2 + (IF n > 4 THEN 4 ELSE n)
  ELSE 0

\* the quantifiers are greedy: two digits are tried before one
NumericDate(s, i) ==
  IF ~IsDigit(At(s, i)) THEN 0
  ELSE IF NumericDateOf(s, i, 2, 2) > 0 THEN NumericDateOf(s, i, 2, 2)
  ELSE IF NumericDateOf(s, i, 2, 1) > 0 THEN NumericDateOf(s, i, 2, 1)
  ELSE IF NumericDateOf(s, i, 1, 2) > 0 THEN NumericDateOf(s, i, 1, 2)
  ELSE NumericDateOf(s, i, 1, 1)

MonthNames ==
  {<<74, 97, 110, 117, 97, 114, 121>>,
   <<70, 101, 98, 114, 117, 97, 114, 121>>,
   <<77, 97, 114, 99, 104>>,
   <<65, 112, 114, 105, 108>>,
   <<77, 97, 121>>,
   <<74, 117, 110, 101>>,
   <<74, 117, 108, 121>>,
   <<65, 117, 103, 117, 115, 116>>,
   <<83, 101, 112, 116, 101, 109, 98, 101, 114>>,
   <<79, 99, 116, 111, 98, 101, 114>>,
   <<78, 111, 118, 101, 109, 98, 101, 114>>,
   <<68, 101, 99, 101, 109, 98, 101, 114>>}

\* a match from position i up to, not including, position e has the length
\* e - i; the position 0 stands for no match
MatchLen(i, e) == IF e > 0 THEN e - i ELSE 0

\* the position behind \s+ from position j on
PastWs(s, j) == IF j > 0 /\ IsWs(At(s, j)) THEN j + RunOf(s, j, IsWs) ELSE 0
\* the position behind \s* from position j on
PastAnyWs(s, j) == IF j > 0 THEN j + RunOf(s, j, IsWs) ELSE 0
\* the position behind \d+ from position j on
PastDigits(s, j) == IF j > 0 /\ IsDigit(At(s, j)) THEN j + RunOf(s, j, IsDigit) ELSE 0
\* the position behind the literal lit from position j on, under the i flag
PastLitI(s, j, lit) == IF j > 0 /\ LitAtI(s, j, lit) THEN j + Len(lit) ELSE 0
\* the position behind a match of the length t that starts at position j
PastLen(j, t) == IF j > 0 /\ t > 0 THEN j + t ELSE 0

\* the position behind (?:January|...|December) from position i on
PastMonthName(s, i) ==
  IF \E m \in MonthNames : LitAt(s, i, m)
  THEN i + Len(CHOOSE m \in MonthNames : LitAt(s, i, m)) ELSE 0
\* the position behind \d{1,2} from position j on
PastOneOrTwoDigits(s, j) ==
  IF j > 0 /\ IsDigit(At(s, j)) THEN (IF IsDigit(At(s, j + 1)) THEN j + 2 ELSE j + 1) ELSE 0
\* the position behind ,? from position j on
PastComma(s, j) == IF j > 0 /\ At(s, j) = 44 THEN j + 1 ELSE j
\* the position behind \d{4} from position j on
PastFourDigits(s, j) == IF j > 0 /\ DigitsAt(s, j, 4) THEN j + 4 ELSE 0

\* /\b(?:January|...|December)\s+\d{1,2},?\s+\d{4}/g
MonthDate(s, i) ==
  IF At(s, i) \notin {65, 68, 70, 74, 77, 78, 79, 83} \/ IsWordChar(At(s, i - 1)) THEN 0
  ELSE MatchLen(i,
         PastFourDigits(s,
           PastWs(s,
             PastComma(s,
               PastOneOrTwoDigits(s,
                 PastWs(s,
                   PastMonthName(s, i)))))))

\* /Page\s+\d+\s+of\s+\d+/gi
PageOf(s, i) ==
  MatchLen(i,
    PastDigits(s,
      PastWs(s,
        PastLitI(s,
          PastWs(s,
            PastDigits(s,
              PastWs(s,
                PastLitI(s, i, <<112, 97, 103, 101>>)))),
          <<111, 102>>))))

\* the largest member of a set of numbers that is not empty
Largest(K) == CHOOSE x \in K : \A y \in K : y <= x

\* \s+.+$ with the m flag from position j on: the white space is taken as
\* far as it goes and given back one character at a time until a character
\* of the line is left for .+, which then runs to the end of the line
SpacesThenLine(s, j) ==
  LET K == {k \in 1..RunOf(s, j, IsWs) : IsDot(At(s, j + k))}
  IN IF K = {} THEN 0
     ELSE Largest(K) + RunOf(s, j + Largest(K), IsDot)

PastSpacesThenLine(s, j) == PastLen(j, SpacesThenLine(s, j))

\* /Generated\s+on\s+.+$/gmi and /Created\s+on\s+.+$/gmi
WordOnLine(s, i, word) ==
  MatchLen(i,
    PastSpacesThenLine(s,
      PastLitI(s,
        PastWs(s,
          PastLitI(s, i, word)),
        <<111, 110>>)))

GeneratedOn(s, i) == WordOnLine(s, i, <<103, 101, 110, 101, 114, 97, 116, 101, 100>>)
CreatedOn(s, i) == WordOnLine(s, i, <<99, 114, 101, 97, 116, 101, 100>>)

\* \s*:?\s*.+$ with the m flag from position j on: the ways to split the
\* white space around the colon
Ways(s, j) ==
  {x \in (0..RunOf(s, j, IsWs)) \X {0, 1} \X (0..Len(s)) :
     /\ x[2] = 1 => At(s, j + x[1]) = 58
     /\ \A k \in 1..x[3] : IsWs(At(s, j + x[1] + x[2] + k - 1))
     /\ IsDot(At(s, j + x[1] + x[2] + x[3]))}

\* the greedy quantifiers try the way x before the way y
Before(x, y) ==
  \/ x[1] > y[1]
  \/ x[1] = y[1] /\ x[2] > y[2]
  \/ x[1] = y[1] /\ x[2] = y[2] /\ x[3] >= y[3]

FirstWay(W) == CHOOSE y \in W : \A z \in W : Before(y, z)

\* the match that splits the white space as x does: .+ runs to the end of
\* the line
WayLen(s, j, x) == x[1] + x[2] + x[3] + RunOf(s, j + x[1] + x[2] + x[3], IsDot)

ColonThenLine(s, j) ==
  IF Ways(s, j) = {} THEN 0 ELSE WayLen(s, j, FirstWay(Ways(s, j)))

PastColonThenLine(s, j) == PastLen(j, ColonThenLine(s, j))

\* /Last\s+updated\s*:?\s*.+$/gmi
LastUpdated(s, i) ==
  MatchLen(i,
    PastColonThenLine(s,
      PastLitI(s,
        PastWs(s,
          PastLitI(s, i, <<108, 97, 115, 116>>)),
        <<117, 112, 100, 97, 116, 101, 100>>)))

\* the position behind :? from position j on
PastColon(s, j) == IF j > 0 /\ At(s, j) = 58 THEN j + 1 ELSE j

\* the position behind one or more characters of the class C from j on
PastRun(s, j, C(_)) == IF j > 0 /\ C(At(s, j)) THEN j + RunOf(s, j, C) ELSE 0

\* the position behind \s*:?\s* followed by one or more characters of the
\* class C, from position j on
PastColonThenRun(s, j, C(_)) ==
  PastRun(s, PastAnyWs(s, PastColon(s, PastAnyWs(s, j))), C)

\* /Document\s+ID\s*:?\s*\w+/gi
DocumentId(s, i) ==
  MatchLen(i,
    PastColonThenRun(s,
      PastLitI(s,
        PastWs(s,
          PastLitI(s, i, <<100, 111, 99, 117, 109, 101, 110, 116>>)),
        <<105, 100>>),
      IsWordChar))

\* /Version\s*:?\s*[\d\.]+/gi
VersionNumber(s, i) ==
  MatchLen(i, PastColonThenRun(s, PastLitI(s, i, <<118, 101, 114, 115, 105, 111, 110>>), IsDigitOrDot))

\* String.prototype.replace comes to position i with the text st[1] put out
\* and the next match looked for from position st[2] on
SpliceStep(st, s, lens, rep, i) ==
  IF i < st[2] THEN st
  ELSE IF lens[i] > 0 THEN <<st[1] \o rep, i + lens[i]>>
  ELSE <<st[1] \o <<s[i]>>, i + 1>>

\* the positions lo..hi, from left to right; the second half is entered
\* with the state of the first half worked out
RECURSIVE SpliceOver(_, _, _, _, _, _)
SpliceOn(st, s, lens, rep, lo, hi) ==
  IF st = st THEN SpliceOver(st, s, lens, rep, lo, hi) ELSE st

SpliceOver(st, s, lens, rep, lo, hi) ==
  IF lo > hi THEN st
  ELSE IF lo = hi THEN SpliceStep(st, s, lens, rep, lo)
  ELSE SpliceOn(SpliceOver(st, s, lens, rep, lo, (lo + hi) \div 2),
                s, lens, rep, (lo + hi) \div 2 + 1, hi)

\* the text from position i on with its matches, as lens gives them,
\* replaced by rep
Splice(s, lens, i, rep) == SpliceOver(<<<<>>, i>>, s, lens, rep, i, Len(s))[1]

\* s.replace(/.../g, rep)
ReplaceAll(s, M(_, _), rep) ==
  LET lens == [i \in 1..Len(s) |-> M(s, i)]
  IN IF \A i \in 1..Len(s) : lens[i] = 0 THEN s ELSE Splice(s, lens, 1, rep)

\* no match of the eight replacements in front of the white space starts
\* at position i: each of them begins with a digit or with one letter
NoneStartsAt(s, i) ==
  LET c == LowerOf(s[i])
  IN IF IsDigit(c)
     THEN TimestampZ(s, i) = 0 /\ TimestampSpaced(s, i) = 0 /\ NumericDate(s, i) = 0
     ELSE IF c = 112 THEN PageOf(s, i) = 0
     ELSE IF c = 103 THEN GeneratedOn(s, i) = 0
     ELSE IF c = 108 THEN LastUpdated(s, i) = 0
     ELSE IF c = 99 THEN CreatedOn(s, i) = 0
     ELSE IF c \in {97, 100, 102, 106, 109, 110, 111, 115} THEN MonthDate(s, i) = 0
     ELSE TRUE

\* the eight replacements in front of the white space; a text in which none
\* of them has a match goes through them unchanged
MaskVolatile(docContent) ==
  IF \A i \in 1..Len(docContent) : NoneStartsAt(docContent, i) THEN docContent
  ELSE
    ReplaceAll(
      ReplaceAll(
        ReplaceAll(
          ReplaceAll(
            ReplaceAll(
              ReplaceAll(
                ReplaceAll(
                  ReplaceAll(
                    docContent,
                    TimestampZ, <<91, 84, 73, 77, 69, 83, 84, 65, 77, 80, 93>>),
                  TimestampSpaced, <<91, 84, 73, 77, 69, 83, 84, 65, 77, 80, 93>>),
                NumericDate, <<91, 68, 65, 84, 69, 93>>),
              MonthDate, <<91, 68, 65, 84, 69, 93>>),
            PageOf, <<91, 80, 65, 71, 69, 93>>),
          GeneratedOn, <<91, 71, 69, 78, 69, 82, 65, 84, 69, 68, 95, 68, 65, 84, 69, 93>>),
        LastUpdated, <<91, 85, 80, 68, 65, 84, 69, 68, 95, 68, 65, 84, 69, 93>>),
      CreatedOn, <<91, 67, 82, 69, 65, 84, 69, 68, 95, 68, 65, 84, 69, 93>>)

\* the two replacements behind .trim()
MaskIdentifiers(text) ==
  IF \A i \in 1..Len(text) :
       LowerOf(text[i]) \in {100, 118} => DocumentId(text, i) = 0 /\ VersionNumber(text, i) = 0
  THEN text
  ELSE ReplaceAll(ReplaceAll(text, DocumentId, <<91, 68, 79, 67, 85, 77, 69, 78, 84, 95, 73, 68, 93>>), VersionNumber, <<91, 86, 69, 82, 83, 73, 79, 78, 93>>)

(***************************************************************************)
(* normalizeDocumentContent: the masks, .replace(/\s+/g, ' ') and .trim(),  *)
(* the masks of the identifiers.  After the white space is collapsed no     *)
(* newline is left for .replace(/\n\s*\n/g, '\n\n').                        *)
(***************************************************************************)
normalizeDocumentContent(docContent) ==
  MaskIdentifiers(Trim(CollapseWs(MaskVolatile(docContent))))

(***************************************************************************)
(* generateContentSignature: hash = ((hash << 5) - hash) + char, kept to 32 *)
(* bits by hash & hash, printed in decimal.  The 32-bit word is held as two *)
(* 16-bit halves; the result is the signed value, which the decimal string  *)
(* names one-to-one.                                                        *)
(***************************************************************************)
\* one round of the loop on the word w and the character c
HashStep(w, c) ==
  LET l == 31 * w[2] + c
      h == 31 * w[1] + (l \div 65536)
  IN <<h % 65536, l % 65536>>

\* the rounds for the characters lo..hi of s, begun with the word w.  The
\* second half is entered with the word of the first half worked out: an
\* argument is handed on unevaluated, and the comparison evaluates it
RECURSIVE HashFrom(_, _, _, _)
HashOn(w, s, lo, hi) == IF w = w THEN HashFrom(w, s, lo, hi) ELSE w

HashFrom(w, s, lo, hi) ==
  IF lo > hi THEN w
  ELSE IF lo = hi THEN HashStep(w, s[lo])
  ELSE HashOn(HashFrom(w, s, lo, (lo + hi) \div 2), s, (lo + hi) \div 2 + 1, hi)

ToInt32(w) ==
  IF w[1] >= 32768 THEN (w[1] - 65536) * 65536 + w[2] ELSE w[1] * 65536 + w[2]

generateContentSignature(content) ==
  IF Len(content) = 0 THEN 0 ELSE ToInt32(HashFrom(<<0, 0>>, content, 1, Len(content)))

(***************************************************************************)
(* The documents folder.  Its root holds A.docx, B.pdf, the subfolder s and *)
(* possibly an entry X whose stat throws (a dangling link); s holds C.docx  *)
(* and the lock file ~$C.docx that a word processor leaves next to it.      *)
(***************************************************************************)
Docs == {"A", "B", "C"}

fileNameOf(id) ==
  CASE id = "A" -> <<65, 46, 100, 111, 99, 120>>             \* A.docx
    [] id = "B" -> <<66, 46, 112, 100, 102>>                 \* B.pdf
    [] id = "C" -> <<67, 46, 100, 111, 99, 120>>             \* C.docx
    [] id = "T" -> <<126, 36, 67, 46, 100, 111, 99, 120>>    \* ~$C.docx
    [] OTHER -> <<>>

\* path.relative(documentsFolder, dirPath): '' for the root, 's' for s
directoryOf(id) == IF id \in {"C", "T"} THEN <<115>> ELSE <<>>

extensionOf(id) == ToLower(extname(fileNameOf(id)))

\* sortKey: `${path.relative(...)}/${file}`
sortKeyOf(id) == directoryOf(id) \o <<47>> \o fileNameOf(id)

\* the (ext === '.docx' || ext === '.pdf') && !file.startsWith('~$') test
IsSupported(id) ==
  /\ extensionOf(id) \in {<<46, 100, 111, 99, 120>>, <<46, 112, 100, 102>>}
  /\ ~startsWith(fileNameOf(id), <<126, 36>>)

\* a.sortKey.localeCompare(b.sortKey) < 0.  The keys of the model differ in
\* their first character ('/' against 's') or in the capital that follows
\* '/', where the collation order and the code unit order agree.
RECURSIVE LexLess(_, _)
LexLess(a, b) ==
  IF b = <<>> THEN FALSE
  ELSE IF a = <<>> THEN TRUE
  ELSE IF Head(a) # Head(b) THEN Head(a) < Head(b)
  ELSE LexLess(Tail(a), Tail(b))

localeCompareLess(x, y) == LexLess(sortKeyOf(x), sortKeyOf(y))

\* fileList.sort((a, b) => a.sortKey.localeCompare(b.sortKey))
RECURSIVE InsertSorted(_, _)
InsertSorted(x, list) ==
  IF list = <<>> THEN <<x>>
  ELSE IF localeCompareLess(x, Head(list)) THEN <<x>> \o list
  ELSE <<Head(list)>> \o InsertSorted(x, Tail(list))

RECURSIVE SortFileList(_)
SortFileList(list) ==
  IF list = <<>> THEN <<>> ELSE InsertSorted(Head(list), SortFileList(Tail(list)))

\* a file of the folder: absent, unreadable by its extractor, or holding text
Absent == [st |-> "absent", text |-> <<>>]
Corrupt == [st |-> "corrupt", text |-> <<>>]
Holding(t) == [st |-> "ok", text |-> t]

\* the nested call getAllSupportedFiles(s, fileList): it pushes C.docx, skips
\* the lock file and sorts the shared list in place
RECURSIVE PushSupported(_, _)
PushSupported(entries, fileList) ==
  IF entries = <<>> THEN fileList
  ELSE PushSupported(Tail(entries),
                     IF IsSupported(Head(entries)) THEN Append(fileList, Head(entries))
                     ELSE fileList)

SubFolderFiles(state, fileList) ==
  SortFileList(PushSupported(IF state["C"].st # "absent" THEN <<"T", "C">> ELSE <<"T">>,
                             fileList))

\* getAllSupportedFiles(documentsFolder): the entries in the order readdirSync
\* gives them; a throwing statSync ends the loop in the catch, which returns
\* the list as it stands, unsorted
RECURSIVE WalkRoot(_, _, _)
WalkRoot(entries, state, fileList) ==
  IF entries = <<>> THEN SortFileList(fileList)
  ELSE LET e == Head(entries)
       IN IF e = "X" THEN fileList
          ELSE IF e = "s" THEN WalkRoot(Tail(entries), state, SubFolderFiles(state, fileList))
          ELSE IF IsSupported(e) THEN WalkRoot(Tail(entries), state, Append(fileList, e))
          ELSE WalkRoot(Tail(entries), state, fileList)

\* readdirSync throws on a folder that cannot be read: the catch returns []
getAllSupportedFiles(fold, entries, state) ==
  IF fold = "unreadable" THEN <<>> ELSE WalkRoot(entries, state, <<>>)

(***************************************************************************)
(* State.                                                                   *)
(***************************************************************************)
VARIABLES
  documentContent,   \* this.documentContent: None or Some(text)
  lastDocumentLoad,  \* this.lastDocumentLoad: None or Some(time in ms)
  contentSignature,  \* this.contentSignature: None or Some(signature)
  clock,             \* the wall clock read by new Date(), in ms
  ticks,             \* how often the clock has advanced
  folder,            \* the documents folder: "missing", "unreadable" or "ok"
  order,             \* the order in which readdirSync lists the root
  fs,                \* the documents: Absent, Corrupt or Holding(text)
  fsChanges,         \* how often the folder has been changed
  pc,                \* where each call stands
  op,                \* which operation each call runs
  now,               \* the const now of getDocumentContentCached
  dirSeen,           \* how the call found the folder: "missing", "unreadable", "ok"
  files,             \* allFiles of readAllDocuments
  idx,               \* the position of the for loop in allFiles
  raw,               \* what the pending extraction has read, None before it read
  seen,              \* what the extractions of this reload have read, file by file
  allContent,        \* allContent of readAllDocuments
  newContent,        \* newContent of getDocumentContentCached
  ret,               \* the value the call returned
  calls,             \* history: how many calls have been made
  ver,               \* history: fsChanges when the call began
  prev,              \* history: the cache as the last completed reload left it
  before,            \* history: the cache as the last change of the folder found it
  request,           \* the arguments of handleChatRequest, None when no request
  docContent,        \* docContent of handleChatRequest
  uploadedPdfContent,\* uploadedPdfContent of handleChatRequest
  payload,           \* the payload handed to openai.chat.completions.create
  result,            \* what handleChatRequest returned, None before it returns
  cacheStats,        \* this.cacheStats
  created,           \* how often openai.chat.completions.create was called
  requests,          \* how many chat requests have been made
  http,              \* the HTTP response of the chat route, None before it is sent
  outcome,           \* what the completion call of the request came back with
  scenario,          \* the request posted to the other versions and what the provider does
  vpc,               \* where the request stands in each of the other versions
  vcache,            \* documentContent and lastDocumentLoad of each other version
  vresult,           \* what handleChatRequest of each other version returned
  vhttp              \* the HTTP response of each other version

cache == <<documentContent, lastDocumentLoad, contentSignature>>
disk == <<folder, order, fs, fsChanges>>
locals == <<pc, op, now, dirSeen, files, idx, raw, seen, allContent, newContent, ret>>
history == <<calls, ver, prev, before>>
front == <<request, docContent, uploadedPdfContent, payload, result, cacheStats,
           created, requests, http, outcome>>
versions == <<scenario, vpc, vcache, vresult, vhttp>>
vars == <<cache, clock, ticks, disk, locals, history, front, versions>>

Procs == {"p1", "p2"}

cacheExpiry == 2 * 60 * 60 * 1000

(***************************************************************************)
(* readAllDocuments and the extractors.                                     *)
(***************************************************************************)
\* what a read of the file finds: nothing once the folder is gone
ReadFile(id) == IF folder = "missing" THEN Absent ELSE fs[id]

\* extractPdfText: readFileSync or pdfParse throws on a missing or damaged
\* file and the catch returns ''; otherwise cleanPdfText(data.text)
extractPdfText(snapshot) ==
  IF snapshot.st = "ok" THEN cleanPdfText(snapshot.text) ELSE <<>>

\* extractDocxText: mammoth rejects on a missing or damaged file and the
\* catch returns ''; otherwise result.value.trim()
extractDocxText(snapshot) ==
  IF snapshot.st = "ok" THEN Trim(snapshot.text) ELSE <<>>

\* the if / else if on file.extension in the loop of readAllDocuments
ExtractContent(id, snapshot) ==
  IF extensionOf(id) = <<46, 112, 100, 102>> THEN extractPdfText(snapshot)
  ELSE IF extensionOf(id) = <<46, 100, 111, 99, 120>> THEN extractDocxText(snapshot)
  ELSE <<>>

\* `\n=== ${file.fileName}${dirInfo} ===\n` + content.trim() + '\n\n'
Section(id, content) ==
  LET dirInfo == IF directoryOf(id) # <<>>
                 THEN <<32, 40>> \o directoryOf(id) \o <<41>> ELSE <<>>
  IN <<10, 61, 61, 61, 32>> \o fileNameOf(id) \o dirInfo \o <<32, 61, 61, 61, 10>>
       \o Trim(content) \o <<10, 10>>

\* if (content.trim()) { allContent += ... }
AddContent(acc, id, content) ==
  IF Trim(content) # <<>> THEN acc \o Section(id, content) ELSE acc

\* mutant: return null
NullResult == None

\* return '': the folder is missing or holds no supported file
EmptyResult == Some(<<>>)

\* mutant: the loop stops one file short
LoopDoneOneShort(i, allFiles) == i >= Len(allFiles) - 1

\* the for loop of readAllDocuments is over when every file has been taken
LoopDone(i, allFiles) == i >= Len(allFiles)

(***************************************************************************)
(* getDocumentContentCached and refreshDocuments.                           *)
(***************************************************************************)
\* !this.documentContent || !this.lastDocumentLoad ||
\* (now - this.lastDocumentLoad) > cacheExpiry
ShouldReload(dc, ldl, t) ==
  \/ ~Truthy(dc)
  \/ IsNull(ldl)
  \/ (t - Val(ldl)) > cacheExpiry

\* mutant: a null stored signature counts as equal
SignatureDiffersUnlessNull(newSignature, stored) ==
  ~IsNull(stored) /\ Some(newSignature) # stored

\* newSignature !== this.contentSignature
SignatureDiffers(newSignature, stored) == Some(newSignature) # stored

\* mutant: the timestamp is set inside the if on the signature
LoadTimeIfChanged(changed, t, old) == IF changed THEN Some(t) ELSE old

\* this.lastDocumentLoad = now, outside the if on the signature
LoadTime(changed, t, old) == Some(t)

\* mutant: return this.documentContent || null
OrNull(dc) == IF Truthy(dc) THEN dc ELSE None

\* return this.documentContent || ''
OrEmpty(dc) == IF Truthy(dc) THEN dc ELSE Some(<<>>)

\* the extraction of a file is called: extractPdfText reads the file at once
\* (readFileSync) and waits for pdfParse; extractDocxText waits for mammoth,
\* which reads the file later
CallExtract(p, id) ==
  IF extensionOf(id) = <<46, 112, 100, 102>>
  THEN /\ raw' = [raw EXCEPT ![p] = Some(ReadFile(id))]
       /\ pc' = [pc EXCEPT ![p] = "parse"]
  ELSE /\ raw' = [raw EXCEPT ![p] = None]
       /\ pc' = [pc EXCEPT ![p] = "read"]

\* mutant: a call that reloaded returns its own newContent
DeliverNewContent(p, value) ==
  /\ ret' = [ret EXCEPT ![p] = IF IsNull(newContent[p]) THEN value ELSE newContent[p]]
  /\ pc' = [pc EXCEPT ![p] = "done"]

\* the call has its value
Deliver(p, value) ==
  /\ ret' = [ret EXCEPT ![p] = value]
  /\ pc' = [pc EXCEPT ![p] = "done"]

\* getDocumentContentCached up to its first await, run on the cache fields dc
\* and ldl as the caller left them
EnterGet(p, dc, ldl) ==
  /\ now' = [now EXCEPT ![p] = clock]
  /\ IF ~ShouldReload(dc, ldl, clock)
     THEN /\ Deliver(p, OrEmpty(dc))
          /\ UNCHANGED <<dirSeen, files, idx, raw, seen, allContent, newContent>>
     ELSE LET allFiles == IF folder = "missing" THEN <<>>
                          ELSE getAllSupportedFiles(folder, order, fs)
          IN /\ dirSeen' = [dirSeen EXCEPT ![p] = folder]
             /\ IF Len(allFiles) = 0
                THEN /\ newContent' = [newContent EXCEPT ![p] = EmptyResult]
                     /\ pc' = [pc EXCEPT ![p] = "loaded"]
                     /\ UNCHANGED <<files, idx, raw, seen, allContent, ret>>
                ELSE /\ files' = [files EXCEPT ![p] = allFiles]
                     /\ idx' = [idx EXCEPT ![p] = 1]
                     /\ CallExtract(p, allFiles[1])
                     /\ UNCHANGED <<seen, allContent, newContent, ret>>

\* requests are anonymous: a new one takes the first free slot
FreeSlot(p) == pc[p] = "idle" /\ (p = "p1" \/ pc["p1"] # "idle")

\* a request calls getDocumentContentCached
CallGet(p) ==
  /\ FreeSlot(p)
  /\ op' = [op EXCEPT ![p] = "get"]
  /\ EnterGet(p, documentContent, lastDocumentLoad)
  /\ UNCHANGED <<cache, clock, ticks, disk>>
  /\ UNCHANGED <<front, versions>>

\* mutant: refreshDocuments clears nothing
CallRefreshWithoutClearing(p) ==
  /\ FreeSlot(p)
  /\ op' = [op EXCEPT ![p] = "refresh"]
  /\ EnterGet(p, documentContent, lastDocumentLoad)
  /\ UNCHANGED <<cache, clock, ticks, disk>>
  /\ UNCHANGED <<front, versions>>

\* mutant: refreshDocuments forgets to clear contentSignature
CallRefreshKeepingSignature(p) ==
  /\ FreeSlot(p)
  /\ op' = [op EXCEPT ![p] = "refresh"]
  /\ documentContent' = None
  /\ contentSignature' = contentSignature
  /\ lastDocumentLoad' = None
  /\ EnterGet(p, None, None)
  /\ UNCHANGED <<clock, ticks, disk>>
  /\ UNCHANGED <<front, versions>>

\* refreshDocuments: the three fields are cleared, then
\* getDocumentContentCached runs up to its first await
CallRefresh(p) ==
  /\ FreeSlot(p)
  /\ op' = [op EXCEPT ![p] = "refresh"]
  /\ documentContent' = None
  /\ contentSignature' = None
  /\ lastDocumentLoad' = None
  /\ EnterGet(p, None, None)
  /\ UNCHANGED <<clock, ticks, disk>>
  /\ UNCHANGED <<front, versions>>

\* mammoth reads the .docx file while extractDocxText is suspended
ReadDocx(p) ==
  /\ pc[p] = "read"
  /\ raw' = [raw EXCEPT ![p] = Some(ReadFile(files[p][idx[p]]))]
  /\ pc' = [pc EXCEPT ![p] = "parse"]
  /\ UNCHANGED <<cache, clock, ticks, disk, op, now, dirSeen, files, idx, seen,
                 allContent, newContent, ret>>
  /\ UNCHANGED <<front, versions>>

\* the extraction of allFiles[idx] resolves and the loop body runs on: the
\* section is added, and either the next extraction is called or the loop
\* ends and readAllDocuments returns normalizeDocumentContent(allContent)
ExtractDone(p) ==
  /\ pc[p] = "parse"
  /\ LET id == files[p][idx[p]]
         content == ExtractContent(id, Val(raw[p]))
         acc == AddContent(allContent[p], id, content)
     IN /\ seen' = [seen EXCEPT ![p] = Append(@, Val(raw[p]))]
        /\ allContent' = [allContent EXCEPT ![p] = acc]
        /\ IF LoopDone(idx[p], files[p])
           THEN /\ newContent' = [newContent EXCEPT ![p] = Some(normalizeDocumentContent(acc))]
                /\ pc' = [pc EXCEPT ![p] = "loaded"]
                /\ UNCHANGED <<idx, raw>>
           ELSE /\ idx' = [idx EXCEPT ![p] = @ + 1]
                /\ CallExtract(p, files[p][idx[p] + 1])
                /\ UNCHANGED newContent
  /\ UNCHANGED <<cache, clock, ticks, disk, op, now, dirSeen, files, ret>>
  /\ UNCHANGED <<front, versions>>

\* getDocumentContentCached resumes after await this.readAllDocuments();
\* generateContentSignature reads content.length, which throws on null
Resume(p) ==
  /\ pc[p] = "loaded"
  /\ IF IsNull(newContent[p])
     THEN /\ pc' = [pc EXCEPT ![p] = "threw"]
          /\ UNCHANGED <<cache, ret>>
     ELSE LET newSignature == generateContentSignature(Val(newContent[p]))
              changed == SignatureDiffers(newSignature, contentSignature)
              dc == IF changed THEN newContent[p] ELSE documentContent
          IN /\ documentContent' = dc
             /\ contentSignature' = IF changed THEN Some(newSignature) ELSE contentSignature
             /\ lastDocumentLoad' = LoadTime(changed, now[p], lastDocumentLoad)
             /\ Deliver(p, OrEmpty(dc))
  /\ UNCHANGED <<clock, ticks, disk, op, now, dirSeen, files, idx, raw, seen,
                 allContent, newContent>>
  /\ UNCHANGED <<front, versions>>

\* the caller has its answer; the frame of the call is gone
Return(p) ==
  /\ pc[p] \in {"done", "threw"}
  /\ op[p] # "chat"
  /\ pc' = [pc EXCEPT ![p] = "idle"]
  /\ op' = [op EXCEPT ![p] = "none"]
  /\ now' = [now EXCEPT ![p] = 0]
  /\ dirSeen' = [dirSeen EXCEPT ![p] = "none"]
  /\ files' = [files EXCEPT ![p] = <<>>]
  /\ idx' = [idx EXCEPT ![p] = 0]
  /\ raw' = [raw EXCEPT ![p] = None]
  /\ seen' = [seen EXCEPT ![p] = <<>>]
  /\ allContent' = [allContent EXCEPT ![p] = <<>>]
  /\ newContent' = [newContent EXCEPT ![p] = None]
  /\ ret' = [ret EXCEPT ![p] = None]
  /\ UNCHANGED <<cache, clock, ticks, disk>>
  /\ UNCHANGED <<front, versions>>

(***************************************************************************)
(* handleChatRequest and chat.  A template literal is kept as the sequence  *)
(* of its parts: Part(lit, text) is the literal lit followed by the         *)
(* interpolated text (None when nothing is interpolated).                   *)
(***************************************************************************)
Part(lit, text) == [lit |-> lit, text |-> text]

Message(role, content) == [role |-> role, content |-> content]

\* the messages argument: null, an array, or a value that is no array
NoMessages == [kind |-> "null", items |-> <<>>]
ArrayOf(items) == [kind |-> "array", items |-> items]
NotAnArray == [kind |-> "other", items |-> <<>>]

\* the uploaded file: no buffer, or a buffer the extractor reads or fails on
NoUpload == [name |-> <<>>, st |-> "absent", text |-> <<>>]
Upload(name, snapshot) == [name |-> name, st |-> snapshot.st, text |-> snapshot.text]

\* !prompt || String(prompt).trim() === ''
PromptMissing(prompt) == ~Truthy(prompt) \/ Trim(Val(prompt)) = <<>>

\* !messages || (Array.isArray(messages) && messages.length === 0)
MessagesMissing(messages) ==
  \/ messages.kind = "null"
  \/ messages.kind = "array" /\ Len(messages.items) = 0

\* mutant: the prompt is not trimmed before it is tested
PromptRequiredUntrimmed(prompt, messages) ==
  ~Truthy(prompt) /\ MessagesMissing(messages)

\* the condition of the first if of handleChatRequest
PromptRequired(prompt, messages) ==
  PromptMissing(prompt) /\ MessagesMissing(messages)

\* a failure result; an undefined error is "" and an undefined statusCode 0
Failure(msg, code) ==
  [success |-> FALSE, response |-> None, error |-> msg, statusCode |-> code]

Success(response) ==
  [success |-> TRUE, response |-> response, error |-> "", statusCode |-> 0]

\* names every object inherits from Object.prototype: errorMap[name] is a
\* function or an object, not undefined
InheritedNames == {"constructor", "toString", "valueOf", "hasOwnProperty", "__proto__"}

\* mutant: rate_limit_exceeded is not in the map
errorInfoWithoutRateLimit(code) ==
  CASE code = "insufficient_quota" ->
         Failure("API quota exceeded. Please try again later.", 429)
    [] code = "invalid_api_key" -> Failure("Invalid API key.", 401)
    [] code = "model_not_found" -> Failure("AI model temporarily unavailable.", 503)
    [] code \in InheritedNames -> Failure("", 0)
    [] OTHER -> Failure("Something went wrong. Please try again.", 500)

\* errorMap[error.code] || { msg: 'Something went wrong. Please try again.', code: 500 }
\* and the result built from errorInfo.msg and errorInfo.code, which are
\* undefined when the lookup found an inherited member
errorInfo(code) ==
  CASE code = "insufficient_quota" ->
         Failure("API quota exceeded. Please try again later.", 429)
    [] code = "invalid_api_key" -> Failure("Invalid API key.", 401)
    [] code = "model_not_found" -> Failure("AI model temporarily unavailable.", 503)
    [] code = "rate_limit_exceeded" ->
         Failure("Too many requests. Please wait a moment.", 429)
    [] code \in InheritedNames -> Failure("", 0)
    [] OTHER -> Failure("Something went wrong. Please try again.", 500)

\* uploadedPdfBuffer && pdfFileName, and the extension has an extractor
UploadGiven(r) == r.upload.st # "absent" /\ r.upload.name # <<>>

UploadExtension(r) == ToLower(extname(r.upload.name))

UploadExtracts(r) ==
  /\ UploadGiven(r)
  /\ UploadExtension(r) \in {<<46, 112, 100, 102>>, <<46, 100, 111, 99, 120>>}

\* extractPdfTextFromBuffer: cleanPdfText(data.text), '' when pdfParse rejects
extractPdfTextFromBuffer(buffer) ==
  IF buffer.st = "ok" THEN cleanPdfText(buffer.text) ELSE <<>>

\* extractDocxTextFromBuffer: (result.value || '').trim(), '' when mammoth
\* rejects
extractDocxTextFromBuffer(buffer) ==
  IF buffer.st = "ok" THEN Trim(buffer.text) ELSE <<>>

\* (pdfFileName && path.extname(pdfFileName).toLowerCase() === '.docx')
\*   ? 'DOCX' : 'PDF'
fileTypeLabel(pdfFileName) ==
  IF pdfFileName # <<>> /\ ToLower(extname(pdfFileName)) = <<46, 100, 111, 99, 120>>
  THEN "DOCX" ELSE "PDF"

\* mutant: the documentation is pushed behind the conversation
ConversationMessagesSystemLast(r, dc, up) ==
  LET withUpload ==
        IF Trim(up) # <<>>
        THEN Append(r.messages.items,
                    Message("user",
                            <<Part("Use this data from ", None),
                              Part(fileTypeLabel(r.upload.name), None),
                              Part(":\n", Some(normalizeDocumentContent(up)))>>))
        ELSE r.messages.items
  IN IF Truthy(dc) /\ Trim(Val(dc)) # <<>>
     THEN Append(withUpload,
                 Message("system",
                         <<Part("You are a helpful assistant for BankersGPS [...]\n\n=== DOCUMENTATION CONTEXT ===\n",
                                Some(normalizeDocumentContent(Val(dc)))),
                           Part("\n\n=== END DOCUMENTATION CONTEXT ===", None)>>))
     ELSE withUpload

\* chat with a conversation: the uploaded text is pushed as a user message,
\* the documentation is put in front as a system message
ConversationMessages(r, dc, up) ==
  LET withUpload ==
        IF Trim(up) # <<>>
        THEN Append(r.messages.items,
                    Message("user",
                            <<Part("Use this data from ", None),
                              Part(fileTypeLabel(r.upload.name), None),
                              Part(":\n", Some(normalizeDocumentContent(up)))>>))
        ELSE r.messages.items
  IN IF Truthy(dc) /\ Trim(Val(dc)) # <<>>
     THEN <<Message("system",
                    <<Part("You are a helpful assistant for BankersGPS [...]\n\n=== DOCUMENTATION CONTEXT ===\n",
                           Some(normalizeDocumentContent(Val(dc)))),
                      Part("\n\n=== END DOCUMENTATION CONTEXT ===", None)>>)>>
          \o withUpload
     ELSE withUpload

\* chat without a conversation: one user message made of the prompt, the
\* uploaded text and the documentation
SingleMessage(r, dc, up) ==
  LET userContent == <<Part("", r.prompt)>>
      withUpload ==
        IF Trim(up) # <<>>
        THEN userContent \o
             <<Part("\n\nUse this data from ", None),
               Part(fileTypeLabel(r.upload.name), None),
               Part(":\n", Some(normalizeDocumentContent(up)))>>
        ELSE userContent
      withDocs ==
        IF Truthy(dc) /\ Trim(Val(dc)) # <<>>
        THEN withUpload \o
             <<Part("\n\n=== DOCUMENTATION CONTEXT ===\n",
                    Some(normalizeDocumentContent(Val(dc)))),
               Part("\n\n=== END DOCUMENTATION CONTEXT ===", None)>>
        ELSE withUpload
  IN <<Message("user", withDocs)>>

\* the payload of chat
BuildPayload(r, dc, up) ==
  [model |-> IF r.modelName = "" THEN "gpt-4.1-mini" ELSE r.modelName,
   messages |-> IF r.messages.kind = "array" /\ Len(r.messages.items) > 0
                THEN ConversationMessages(r, dc, up)
                ELSE SingleMessage(r, dc, up),
   temperature |-> IF r.modelName # "gpt-5" THEN Some("0.2") ELSE None,
   stream |-> IF r.modelName # "gpt-5" THEN Some(FALSE) ELSE None,
   reasoning_effort |-> IF r.modelName # "gpt-5" THEN None ELSE Some("low")]

\* mutant: a completion without usage is counted as a miss
trackCacheUsageWithoutUsage(stats, usage) ==
  IF IsNull(usage) THEN [stats EXCEPT !.misses = @ + 1]
  ELSE IF Val(usage).cached_tokens > 0
       THEN [stats EXCEPT !.hits = @ + 1,
                          !.totalSavings = @ + Val(usage).cached_tokens]
       ELSE [stats EXCEPT !.misses = @ + 1]

\* trackCacheUsage: nothing without usage; a hit when cached tokens were
\* reported, a miss otherwise.  totalSavings is counted in cached tokens:
\* each saves INPUT_RATE - CACHED_RATE
trackCacheUsage(stats, usage) ==
  IF IsNull(usage) THEN stats
  ELSE IF Val(usage).cached_tokens > 0
       THEN [stats EXCEPT !.hits = @ + 1,
                          !.totalSavings = @ + Val(usage).cached_tokens]
       ELSE [stats EXCEPT !.misses = @ + 1]

\* chat is called: the payload is built and handed to
\* openai.chat.completions.create
Send(p, r, dc, up) ==
  /\ payload' = [payload EXCEPT ![p] = Some(BuildPayload(r, dc, up))]
  /\ created' = created + 1
  /\ pc' = [pc EXCEPT ![p] = "sent"]

\* handleChatRequest goes on with docContent: the extraction of the uploaded
\* file is called, or chat at once when there is nothing to extract
AfterDocs(p, r, dc) ==
  /\ docContent' = [docContent EXCEPT ![p] = dc]
  /\ IF UploadExtracts(r)
     THEN /\ pc' = [pc EXCEPT ![p] = "upload"]
          /\ UNCHANGED <<uploadedPdfContent, payload, created>>
     ELSE /\ uploadedPdfContent' = [uploadedPdfContent EXCEPT ![p] = <<>>]
          /\ Send(p, r, dc, <<>>)

MaxRequests == 2

\* handleChatRequest is called with the request r and runs up to its first
\* await
HandleChatRequest(p, r) ==
  /\ FreeSlot(p)
  /\ requests < MaxRequests
  /\ requests' = requests + 1
  /\ op' = [op EXCEPT ![p] = "chat"]
  /\ request' = [request EXCEPT ![p] = Some(r)]
  /\ IF PromptRequired(r.prompt, r.messages)
     THEN /\ result' = [result EXCEPT ![p] = Some(Failure("Prompt is required.", 400))]
          /\ pc' = [pc EXCEPT ![p] = "answered"]
          /\ UNCHANGED <<now, dirSeen, files, idx, raw, seen, allContent,
                         newContent, ret, docContent, uploadedPdfContent,
                         payload, created>>
     ELSE IF r.useDocuments
          THEN /\ EnterGet(p, documentContent, lastDocumentLoad)
               /\ UNCHANGED <<docContent, uploadedPdfContent, payload, result,
                              created>>
          ELSE /\ AfterDocs(p, r, Some(<<>>))
               /\ UNCHANGED <<now, dirSeen, files, idx, raw, seen, allContent,
                              newContent, ret, result>>
  /\ UNCHANGED <<cache, clock, ticks, disk, cacheStats, history, http,
                 outcome, versions>>

\* await this.getDocumentContentCached() is over: handleChatRequest goes on
\* with what it returned, or its catch answers 500 when it threw
DocsReturned(p) ==
  /\ op[p] = "chat"
  /\ pc[p] \in {"done", "threw"}
  /\ IF pc[p] = "threw"
     THEN /\ result' = [result EXCEPT ![p] = Some(errorInfo(""))]
          /\ pc' = [pc EXCEPT ![p] = "answered"]
          /\ UNCHANGED <<docContent, uploadedPdfContent, payload, created>>
     ELSE /\ AfterDocs(p, Val(request[p]), ret[p])
          /\ UNCHANGED result
  /\ UNCHANGED <<cache, clock, ticks, disk, op, now, dirSeen, files, idx, raw,
                 seen, allContent, newContent, ret, request, cacheStats,
                 requests, history, http,
                 outcome, versions>>

\* mutant: a failure of the extractor is not caught and fails the request
UploadExtractedRethrowing(p) ==
  /\ pc[p] = "upload"
  /\ LET r == Val(request[p])
         up == IF UploadExtension(r) = <<46, 112, 100, 102>>
               THEN extractPdfTextFromBuffer(r.upload)
               ELSE extractDocxTextFromBuffer(r.upload)
     IN IF r.upload.st = "ok"
        THEN /\ uploadedPdfContent' = [uploadedPdfContent EXCEPT ![p] = up]
             /\ Send(p, r, docContent[p], up)
             /\ UNCHANGED result
        ELSE /\ result' = [result EXCEPT ![p] = Some(errorInfo(""))]
             /\ pc' = [pc EXCEPT ![p] = "answered"]
             /\ UNCHANGED <<uploadedPdfContent, payload, created>>
  /\ UNCHANGED <<cache, clock, ticks, disk, op, now, dirSeen, files, idx, raw,
                 seen, allContent, newContent, ret, request, docContent,
                 cacheStats, requests, history, http,
                 outcome, versions>>

\* mutant: the text of the uploaded file is kept in the cache
UploadExtractedIntoCache(p) ==
  /\ pc[p] = "upload"
  /\ LET r == Val(request[p])
         up == IF UploadExtension(r) = <<46, 112, 100, 102>>
               THEN extractPdfTextFromBuffer(r.upload)
               ELSE extractDocxTextFromBuffer(r.upload)
     IN /\ uploadedPdfContent' = [uploadedPdfContent EXCEPT ![p] = up]
        /\ documentContent' = Some(Val(docContent[p]) \o up)
        /\ Send(p, r, docContent[p], up)
  /\ UNCHANGED <<lastDocumentLoad, contentSignature, clock, ticks, disk, op, now,
                 dirSeen, files, idx, raw, seen, allContent, newContent, ret,
                 request, docContent, result, cacheStats, requests, history, http,
                 outcome, versions>>

\* the extraction of the uploaded file is over, and chat is called
UploadExtracted(p) ==
  /\ pc[p] = "upload"
  /\ LET r == Val(request[p])
         up == IF UploadExtension(r) = <<46, 112, 100, 102>>
               THEN extractPdfTextFromBuffer(r.upload)
               ELSE extractDocxTextFromBuffer(r.upload)
     IN /\ uploadedPdfContent' = [uploadedPdfContent EXCEPT ![p] = up]
        /\ Send(p, r, docContent[p], up)
  /\ UNCHANGED <<cache, clock, ticks, disk, op, now, dirSeen, files, idx, raw,
                 seen, allContent, newContent, ret, request, docContent,
                 result, cacheStats, requests, history, http,
                 outcome, versions>>

\* what openai.chat.completions.create may come back with
\* a completion with one choice, a completion with no choice, a rejection
\* with error.code (the code "" stands for an error without a code)
Answer(text, usage) == [kind |-> "answer", text |-> text, usage |-> usage, code |-> ""]
NoChoice(usage) == [kind |-> "nochoice", text |-> <<>>, usage |-> usage, code |-> ""]
Throw(code) == [kind |-> "error", text |-> <<>>, usage |-> None, code |-> code]

Usage(cached) == [prompt_tokens |-> 2, cached_tokens |-> cached, completion_tokens |-> 1]

Outcomes ==
  {Answer(<<97>>, u) : u \in {None, Some(Usage(0)), Some(Usage(1))}}
    \cup {NoChoice(Some(Usage(1)))}
    \cup {Throw(c) : c \in {"insufficient_quota", "invalid_api_key",
                            "model_not_found", "rate_limit_exceeded",
                            "server_error", "", "constructor"}}

\* mutant: a failed completion call is issued once more
CompletionWithRetry(p, o) ==
  /\ pc[p] = "sent"
  /\ IF o.kind = "error" /\ created < 2 * requests
     THEN /\ created' = created + 1
          /\ UNCHANGED <<pc, result, cacheStats, outcome>>
     ELSE /\ cacheStats' = trackCacheUsage(cacheStats, o.usage)
          /\ result' = [result EXCEPT ![p] =
                          Some(IF o.kind = "answer" THEN Success(Some(o.text))
                               ELSE errorInfo(o.code))]
          /\ outcome' = [outcome EXCEPT ![p] = Some(o)]
          /\ pc' = [pc EXCEPT ![p] = "answered"]
          /\ UNCHANGED created
  /\ UNCHANGED <<cache, clock, ticks, disk, op, now, dirSeen, files, idx, raw,
                 seen, allContent, newContent, ret, request, docContent,
                 uploadedPdfContent, payload, requests, history, http,
                 versions>>

\* the completion call is over: chat tracks the usage and returns the text and
\* handleChatRequest answers with it; completion.choices[0].message throws a
\* TypeError, which has no code, when there is no choice; the catch of
\* handleChatRequest maps the error
Completion(p, o) ==
  /\ pc[p] = "sent"
  /\ IF o.kind = "answer"
     THEN /\ cacheStats' = trackCacheUsage(cacheStats, o.usage)
          /\ result' = [result EXCEPT ![p] = Some(Success(Some(o.text)))]
     ELSE IF o.kind = "nochoice"
          THEN /\ cacheStats' = trackCacheUsage(cacheStats, o.usage)
               /\ result' = [result EXCEPT ![p] = Some(errorInfo(""))]
          ELSE /\ result' = [result EXCEPT ![p] = Some(errorInfo(o.code))]
               /\ UNCHANGED cacheStats
  /\ outcome' = [outcome EXCEPT ![p] = Some(o)]
  /\ pc' = [pc EXCEPT ![p] = "answered"]
  /\ UNCHANGED <<cache, clock, ticks, disk, op, now, dirSeen, files, idx, raw,
                 seen, allContent, newContent, ret, request, docContent,
                 uploadedPdfContent, payload, created, requests, history, http,
                 versions>>

\* what the chat route sends for a result: res.json({ response }) or
\* res.status(result.statusCode || 500).json({ error: result.error }); an
\* undefined error leaves the body without an error member
HttpOf(r) ==
  IF r.success
  THEN [status |-> 200, response |-> r.response, error |-> ""]
  ELSE [status |-> IF r.statusCode = 0 THEN 500 ELSE r.statusCode,
        response |-> None, error |-> r.error]

\* the chat route has the result of handleChatRequest and sends its response
RouteReplies(p) ==
  /\ pc[p] = "answered"
  /\ http' = [http EXCEPT ![p] = Some(HttpOf(Val(result[p])))]
  /\ pc' = [pc EXCEPT ![p] = "replied"]
  /\ UNCHANGED <<cache, clock, ticks, disk, op, now, dirSeen, files, idx, raw,
                 seen, allContent, newContent, ret, request, docContent,
                 uploadedPdfContent, payload, result, cacheStats, created,
                 requests, history, outcome,
                 versions>>

\* getDocumentStats: what it returns; cacheEfficiency is the share of hits in
\* tenths of a percent, as toFixed(1) rounds it, 0 for '0%'
getDocumentStats ==
  [lastLoaded |-> lastDocumentLoad,
   contentLength |-> IF Truthy(documentContent) THEN Len(Val(documentContent)) ELSE 0,
   contentSignature |-> contentSignature,
   hasContent |-> Truthy(documentContent),
   cacheAge |-> IF IsNull(lastDocumentLoad) THEN None
                ELSE Some(clock - Val(lastDocumentLoad)),
   cacheStats |-> cacheStats,
   cacheEfficiency |->
     IF cacheStats.hits + cacheStats.misses > 0
     THEN (2000 * cacheStats.hits + cacheStats.hits + cacheStats.misses)
            \div (2 * (cacheStats.hits + cacheStats.misses))
     ELSE 0]

\* getCacheOptimizationTips: the tips pushed, in their order
getCacheOptimizationTips ==
  LET stats == getDocumentStats
  IN (IF stats.cacheStats.misses > stats.cacheStats.hits
      THEN <<"Consider standardizing document formats to improve cache consistency">>
      ELSE <<>>)
     \o (IF ~stats.hasContent
         THEN <<"No documents loaded - consider adding documentation for better context">>
         ELSE <<>>)
     \o (IF stats.contentLength > 50000
         THEN <<"Large document set detected - caching will provide significant cost savings">>
         ELSE <<>>)

\* what the routes below leave alone
ReadOnlyRoute ==
  UNCHANGED <<cache, clock, ticks, disk, now, dirSeen, files, idx, raw, seen,
              allContent, newContent, ret, history, request, docContent,
              uploadedPdfContent, payload, result, cacheStats, created,
              requests, outcome, versions>>

\* GET /api/documents/stats
StatsRoute(p) ==
  /\ FreeSlot(p)
  /\ op' = [op EXCEPT ![p] = "stats"]
  /\ pc' = [pc EXCEPT ![p] = "told"]
  /\ http' = [http EXCEPT ![p] =
               Some([status |-> 200, response |-> Some(getDocumentStats), error |-> ""])]
  /\ ReadOnlyRoute

\* GET /api/cache/tips
TipsRoute(p) ==
  /\ FreeSlot(p)
  /\ op' = [op EXCEPT ![p] = "tips"]
  /\ pc' = [pc EXCEPT ![p] = "told"]
  /\ http' = [http EXCEPT ![p] =
               Some([status |-> 200,
                     response |->
                       Some(LET tips == getCacheOptimizationTips
                                stats == getDocumentStats
                            IN [tips |-> tips,
                                cacheStats |-> stats.cacheStats,
                                cacheEfficiency |-> stats.cacheEfficiency,
                                documentsLoaded |-> stats.hasContent,
                                cacheAge |-> stats.cacheAge,
                                contentSize |-> stats.contentLength]),
                     error |-> ""])]
  /\ ReadOnlyRoute

\* the response is sent; the frame of the request is gone
Respond(p) ==
  /\ pc[p] \in {"replied", "told"}
  /\ pc' = [pc EXCEPT ![p] = "idle"]
  /\ op' = [op EXCEPT ![p] = "none"]
  /\ now' = [now EXCEPT ![p] = 0]
  /\ dirSeen' = [dirSeen EXCEPT ![p] = "none"]
  /\ files' = [files EXCEPT ![p] = <<>>]
  /\ idx' = [idx EXCEPT ![p] = 0]
  /\ raw' = [raw EXCEPT ![p] = None]
  /\ seen' = [seen EXCEPT ![p] = <<>>]
  /\ allContent' = [allContent EXCEPT ![p] = <<>>]
  /\ newContent' = [newContent EXCEPT ![p] = None]
  /\ ret' = [ret EXCEPT ![p] = None]
  /\ request' = [request EXCEPT ![p] = None]
  /\ docContent' = [docContent EXCEPT ![p] = Some(<<>>)]
  /\ uploadedPdfContent' = [uploadedPdfContent EXCEPT ![p] = <<>>]
  /\ payload' = [payload EXCEPT ![p] = None]
  /\ result' = [result EXCEPT ![p] = None]
  /\ http' = [http EXCEPT ![p] = None]
  /\ outcome' = [outcome EXCEPT ![p] = None]
  /\ UNCHANGED <<cache, clock, ticks, disk, cacheStats, created, requests, history,
                 versions>>

(***************************************************************************)
(* The environment: the clock and the folder.                               *)
(***************************************************************************)
\* how often the environment (the clock, the folder) may change in a run
MaxEnvSteps == 2

EnvBudget == ticks + fsChanges < MaxEnvSteps

\* the texts a document may hold: "Aa", "BB" and "Aa " for A.docx, "b" for
\* B.pdf, "c" for C.docx
TextsOf(id) ==
  CASE id = "A" -> {<<65, 97>>, <<66, 66>>, <<65, 97, 32>>}
    [] id = "B" -> {<<98>>}
    [] OTHER -> {<<99>>}

\* the clock advances
Tick(d) ==
  /\ EnvBudget
  /\ clock' = clock + d
  /\ ticks' = ticks + 1
  /\ UNCHANGED <<cache, disk, locals>>
  /\ UNCHANGED <<front, versions>>

InRoot(id) == id \in {"A", "B", "X"}
Has(list, e) == \E i \in 1..Len(list) : list[i] = e
Without(list, e) == SelectSeq(list, LAMBDA x : x # e)
Insertions(list, e) ==
  {SubSeq(list, 1, k) \o <<e>> \o SubSeq(list, k + 1, Len(list)) : k \in 0..Len(list)}

\* a document is written: created, restored or given another text
WriteFile(id, t) ==
  /\ EnvBudget
  /\ folder # "missing"
  /\ fs[id] # Holding(t)
  /\ fs' = [fs EXCEPT ![id] = Holding(t)]
  /\ IF InRoot(id) /\ ~Has(order, id)
     THEN order' \in Insertions(order, id)
     ELSE order' = order
  /\ fsChanges' = fsChanges + 1
  /\ UNCHANGED <<cache, clock, ticks, folder, locals>>
  /\ UNCHANGED <<front, versions>>

\* a document is damaged: its extractor will fail on it
DamageFile(id) ==
  /\ EnvBudget
  /\ folder # "missing"
  /\ fs[id].st = "ok"
  /\ fs' = [fs EXCEPT ![id] = Corrupt]
  /\ fsChanges' = fsChanges + 1
  /\ UNCHANGED <<cache, clock, ticks, folder, order, locals>>
  /\ UNCHANGED <<front, versions>>

\* the folder goes away, loses its read permission, or is back
SetFolder(f) ==
  /\ EnvBudget
  /\ folder # f
  /\ folder' = f
  /\ fsChanges' = fsChanges + 1
  /\ UNCHANGED <<cache, clock, ticks, order, fs, locals>>
  /\ UNCHANGED <<front, versions>>

(***************************************************************************)
(* Specification Spec: two requests at a time on one Chatbot, over a folder *)
(* that changes and a clock that advances.                                  *)
(***************************************************************************)
InitCache ==
  /\ documentContent = None
  /\ lastDocumentLoad = None
  /\ contentSignature = None

InitLocals ==
  /\ pc = [p \in Procs |-> "idle"]
  /\ op = [p \in Procs |-> "none"]
  /\ now = [p \in Procs |-> 0]
  /\ dirSeen = [p \in Procs |-> "none"]
  /\ files = [p \in Procs |-> <<>>]
  /\ idx = [p \in Procs |-> 0]
  /\ raw = [p \in Procs |-> None]
  /\ seen = [p \in Procs |-> <<>>]
  /\ allContent = [p \in Procs |-> <<>>]
  /\ newContent = [p \in Procs |-> None]
  /\ ret = [p \in Procs |-> None]

InitFront ==
  /\ request = [p \in Procs |-> None]
  /\ docContent = [p \in Procs |-> Some(<<>>)]
  /\ uploadedPdfContent = [p \in Procs |-> <<>>]
  /\ payload = [p \in Procs |-> None]
  /\ result = [p \in Procs |-> None]
  /\ cacheStats = [hits |-> 0, misses |-> 0, totalSavings |-> 0]
  /\ created = 0
  /\ requests = 0
  /\ http = [p \in Procs |-> None]
  /\ outcome = [p \in Procs |-> None]

NoCache == [ver |-> -1, content |-> None, sig |-> None]

InitVersions ==
  /\ scenario = None
  /\ vpc = [v \in {"botnode", "v12", "dotnet"} |-> "idle"]
  /\ vcache = [v \in {"botnode", "v12", "dotnet"} |->
                [documentContent |-> None, lastDocumentLoad |-> None]]
  /\ vresult = [v \in {"botnode", "v12", "dotnet"} |-> None]
  /\ vhttp = [v \in {"botnode", "v12", "dotnet"} |-> None]

InitHistory ==
  /\ calls = 0
  /\ ver = [p \in Procs |-> 0]
  /\ prev = NoCache
  /\ before = [kind |-> "none", content |-> None, sig |-> None]

\* the folder at the start: A.docx "Aa" and B.pdf "b", listed B, s, A
Init ==
  /\ InitCache
  /\ InitLocals
  /\ InitHistory
  /\ InitFront
  /\ InitVersions
  /\ clock = 0
  /\ ticks = 0
  /\ fsChanges = 0
  /\ folder = "ok"
  /\ order = <<"B", "s", "A">>
  /\ fs = [id \in Docs |-> IF id = "A" THEN Holding(<<65, 97>>)
                           ELSE IF id = "B" THEN Holding(<<98>>) ELSE Absent]

Next ==
  \/ \E p \in Procs : CallGet(p) /\ UNCHANGED history
  \/ \E p \in Procs : CallRefresh(p) /\ UNCHANGED history
  \/ \E p \in Procs : ReadDocx(p) /\ UNCHANGED history
  \/ \E p \in Procs : ExtractDone(p) /\ UNCHANGED history
  \/ \E p \in Procs : Resume(p) /\ UNCHANGED history
  \/ \E p \in Procs : Return(p) /\ UNCHANGED history
  \/ \E d \in {cacheExpiry, cacheExpiry + 1} : Tick(d) /\ UNCHANGED history
  \/ \E t \in TextsOf("A") : WriteFile("A", t) /\ UNCHANGED history
  \/ DamageFile("A") /\ UNCHANGED history
  \/ \E f \in {"missing", "unreadable", "ok"} : SetFolder(f) /\ UNCHANGED history

Spec == Init /\ [][Next]_vars

(***************************************************************************)
(* Specification SpecSeq: one request after the other, with the history of  *)
(* the cache kept: what the last completed reload left, and what the last   *)
(* change of the folder found.                                              *)
(***************************************************************************)
MaxCalls == 3

TrackCall(p) ==
  /\ calls < MaxCalls
  /\ calls' = calls + 1
  /\ ver' = [ver EXCEPT ![p] = fsChanges]
  /\ UNCHANGED <<prev, before>>

\* a reload that read one state of the folder from its start to its end is
\* recorded with what it left in the cache
TrackResume(p) ==
  /\ prev' = IF ver[p] = fsChanges
             THEN [ver |-> fsChanges, content |-> documentContent',
                   sig |-> contentSignature']
             ELSE NoCache
  /\ UNCHANGED <<calls, ver, before>>

TrackFs(kind) ==
  /\ before' = [kind |-> kind, content |-> documentContent, sig |-> contentSignature]
  /\ UNCHANGED <<calls, ver, prev>>

SeqGet == CallGet("p1") /\ TrackCall("p1")
SeqRefresh == CallRefresh("p1") /\ TrackCall("p1")
SeqReadDocx == ReadDocx("p1") /\ UNCHANGED history
SeqExtractDone == ExtractDone("p1") /\ UNCHANGED history
SeqResume == Resume("p1") /\ TrackResume("p1")
SeqReturn == Return("p1") /\ UNCHANGED history
SeqTick == \E d \in {cacheExpiry, cacheExpiry + 1} : Tick(d) /\ UNCHANGED history
\* the text of A.docx is replaced by another text
SeqModify ==
  \E t \in TextsOf("A") :
    WriteFile("A", t) /\ TrackFs(IF fs["A"].st = "ok" THEN "text" ELSE "other")
SeqDamage == DamageFile("A") /\ TrackFs("other")
SeqSetFolder == \E f \in {"missing", "unreadable", "ok"} : SetFolder(f) /\ TrackFs("other")

NextSeq ==
  \/ SeqGet
  \/ SeqRefresh
  \/ SeqReadDocx
  \/ SeqExtractDone
  \/ SeqResume
  \/ SeqReturn
  \/ SeqTick
  \/ SeqModify
  \/ SeqDamage
  \/ SeqSetFolder

SpecSeq == Init /\ [][NextSeq]_vars

(***************************************************************************)
(* Specification SpecDir: one request after the other over a folder that    *)
(* does not change, for every folder of the model: missing, unreadable, or  *)
(* holding any of A.docx, B.pdf and s/C.docx (damaged, blank or with text)  *)
(* and possibly the entry X, listed in any order.                           *)
(***************************************************************************)
RECURSIVE Perms(_)
Perms(S) ==
  IF S = {} THEN {<<>>}
  ELSE UNION {{<<x>> \o q : q \in Perms(S \ {x})} : x \in S}

DirStates(id) ==
  CASE id = "A" -> {Absent, Corrupt, Holding(<<65, 97>>), Holding(<<32>>)}
    [] id = "B" -> {Absent, Corrupt, Holding(<<98>>)}
    [] OTHER -> {Absent, Corrupt, Holding(<<99>>)}

InitDir ==
  /\ InitCache
  /\ InitLocals
  /\ InitHistory
  /\ InitFront
  /\ InitVersions
  /\ clock = 0
  /\ ticks = 0
  /\ fsChanges = 0
  /\ folder \in {"ok", "missing", "unreadable"}
  /\ fs \in [Docs -> UNION {DirStates(id) : id \in Docs}]
  /\ \A id \in Docs : fs[id] \in DirStates(id)
  /\ folder = "missing" => \A id \in Docs : fs[id] = Absent
  /\ \E x \in SUBSET {"X"} :
       order \in Perms({"s"} \cup {id \in {"A", "B"} : fs[id].st # "absent"} \cup x)
  /\ folder = "missing" => order = <<"s">>

DirGet == CallGet("p1") /\ TrackCall("p1")
DirRefresh == CallRefresh("p1") /\ TrackCall("p1")
DirReadDocx == ReadDocx("p1") /\ UNCHANGED history
DirExtractDone == ExtractDone("p1") /\ UNCHANGED history
DirResume == Resume("p1") /\ TrackResume("p1")
DirReturn == Return("p1") /\ UNCHANGED history

NextDir ==
  \/ DirGet
  \/ DirRefresh
  \/ DirReadDocx
  \/ DirExtractDone
  \/ DirResume
  \/ DirReturn

SpecDir == InitDir /\ [][NextDir]_vars

(***************************************************************************)
(* Specification SpecChat: chat requests, one after the other, on the       *)
(* folder of Init; each request is any combination of prompt, conversation, *)
(* useDocuments, upload and model, and the completion call answers or       *)
(* fails in any of its ways.                                                *)
(***************************************************************************)
Prompts == {None, Some(<<>>), Some(<<32>>), Some(<<113>>)}

Conversations ==
  {NoMessages, ArrayOf(<<>>), NotAnArray,
   ArrayOf(<<Message("user", <<Part("", Some(<<104>>))>>)>>)}

\* u.pdf with the text "u", a damaged u.pdf, U.DOCX with a blank text, u.txt
Uploads ==
  {NoUpload,
   Upload(<<117, 46, 112, 100, 102>>, Holding(<<117>>)),
   Upload(<<117, 46, 112, 100, 102>>, Corrupt),
   Upload(<<85, 46, 68, 79, 67, 88>>, Holding(<<32>>)),
   Upload(<<117, 46, 116, 120, 116>>, Holding(<<117>>))}

Requests ==
  [prompt : Prompts, analysisType : {None, Some("ratio")}, useDocuments : BOOLEAN,
   upload : Uploads, modelName : {"gpt-4.1-mini", "gpt-5"}, messages : Conversations]

ChatRequest == \E r \in Requests : HandleChatRequest("p1", r)
ChatReadDocx == ReadDocx("p1") /\ UNCHANGED history
ChatExtractDone == ExtractDone("p1") /\ UNCHANGED history
ChatResume == Resume("p1") /\ UNCHANGED history
ChatDocsReturned == DocsReturned("p1")
ChatUploadExtracted == UploadExtracted("p1")
ChatCompletion == \E o \in Outcomes : Completion("p1", o)
ChatRouteReplies == RouteReplies("p1")
ChatStats == StatsRoute("p1")
ChatTips == TipsRoute("p1")
ChatRespond == Respond("p1")

NextChat ==
  \/ ChatRequest
  \/ ChatReadDocx
  \/ ChatExtractDone
  \/ ChatResume
  \/ ChatDocsReturned
  \/ ChatUploadExtracted
  \/ ChatCompletion
  \/ ChatRouteReplies
  \/ ChatStats
  \/ ChatTips
  \/ ChatRespond

SpecChat == Init /\ [][NextChat]_vars

(***************************************************************************)
(* Specification SpecPar: two requests at a time calling                    *)
(* getDocumentContentCached, over a folder that changes only while no call  *)
(* is in progress.  prev keeps the cache as the calls that overlap found    *)
(* it: it is taken when a call begins while no reload is in progress.       *)
(***************************************************************************)
InReload(p) == pc[p] \in {"read", "parse", "loaded"}

Quiet == \A p \in Procs : pc[p] = "idle"

TrackBatch ==
  /\ prev' = IF \E q \in Procs : InReload(q) THEN prev
             ELSE [ver |-> fsChanges, content |-> documentContent,
                   sig |-> contentSignature]
  /\ UNCHANGED <<calls, ver, before>>

ParGet == \E p \in Procs : CallGet(p) /\ TrackBatch
ParReadDocx == \E p \in Procs : ReadDocx(p) /\ UNCHANGED history
ParExtractDone == \E p \in Procs : ExtractDone(p) /\ UNCHANGED history
ParResume == \E p \in Procs : Resume(p) /\ UNCHANGED history
ParReturn == \E p \in Procs : Return(p) /\ UNCHANGED history
ParTick == \E d \in {cacheExpiry, cacheExpiry + 1} : Tick(d) /\ UNCHANGED history
ParModify == \E t \in TextsOf("A") : Quiet /\ WriteFile("A", t) /\ UNCHANGED history
ParDamage == Quiet /\ DamageFile("A") /\ UNCHANGED history
ParSetFolder ==
  \E f \in {"missing", "unreadable", "ok"} : Quiet /\ SetFolder(f) /\ UNCHANGED history

NextPar ==
  \/ ParGet
  \/ ParReadDocx
  \/ ParExtractDone
  \/ ParResume
  \/ ParReturn
  \/ ParTick
  \/ ParModify
  \/ ParDamage
  \/ ParSetFolder

SpecPar == Init /\ [][NextPar]_vars

(***************************************************************************)
(* The other versions of the chatbot in the repository: the bot-node        *)
(* Chatbot with its index.js, the Chatbot of javascript/ (v1.2.0) and the   *)
(* .NET ChatbotService with its ChatController.  Each has a cache of its    *)
(* own over the same documents folder.  The payload they build is not       *)
(* state and is left out.                                                   *)
(***************************************************************************)
OtherVersions == <<"botnode", "v12", "dotnet">>

\* an instance that has loaded nothing
NoInstance == [documentContent |-> None, lastDocumentLoad |-> None]

\* the name readdirSync and Directory.GetFiles give for an entry of the root
entryNameOf(e) ==
  IF e = "s" THEN <<115>> ELSE IF e = "X" THEN <<88>> ELSE fileNameOf(e)

endsWith(s, suf) ==
  Len(s) >= Len(suf) /\ SubSeq(s, Len(s) - Len(suf) + 1, Len(s)) = suf

\* file.toLowerCase().endsWith('.docx') && !file.startsWith('~$')
IsRootDocx(e) ==
  /\ endsWith(ToLower(entryNameOf(e)), <<46, 100, 111, 99, 120>>)
  /\ ~startsWith(entryNameOf(e), <<126, 36>>)

\* `\n--- Content from ${file}${dirInfo} ---\n` + content + '\n\n'
ContentFrom(name, dirInfo, content) ==
  <<10, 45, 45, 45, 32, 67, 111, 110, 116, 101, 110, 116, 32, 102, 114, 111, 109, 32>>
    \o name \o dirInfo \o <<32, 45, 45, 45, 10>> \o content \o <<10, 10>>

\* the loop of readAllDocxFromFolder of bot-node: the section is added after
\* mammoth has resolved; a rejection is caught and the file is skipped
RECURSIVE BotNodeSections(_, _, _)
BotNodeSections(docxFiles, state, acc) ==
  IF docxFiles = <<>> THEN acc
  ELSE LET f == Head(docxFiles)
       IN BotNodeSections(Tail(docxFiles), state,
            IF state[f].st = "ok"
            THEN acc \o ContentFrom(fileNameOf(f), <<>>, Trim(state[f].text))
            ELSE acc)

\* readAllDocxFromFolder of bot-node: '' for a folder that is missing or
\* cannot be listed, else the .docx files of the root in the listed order
BotNodeReadAllDocxFromFolder(fold, entries, state) ==
  IF fold # "ok" THEN <<>>
  ELSE BotNodeSections(SelectSeq(entries, IsRootDocx), state, <<>>)

\* ExtractTextFromDocx: body.InnerText, string.Empty on any exception
ExtractTextFromDocx(snapshot) ==
  IF snapshot.st = "ok" THEN snapshot.text ELSE <<>>

\* the loop of ReadAllDocxFromFolderAsync: every file gets its section
RECURSIVE DotnetSections(_, _, _)
DotnetSections(docxFiles, state, acc) ==
  IF docxFiles = <<>> THEN acc
  ELSE LET f == Head(docxFiles)
       IN DotnetSections(Tail(docxFiles), state,
            acc \o ContentFrom(fileNameOf(f), <<>>,
                               Trim(ExtractTextFromDocx(state[f]))))

\* ReadAllDocxFromFolderAsync
ReadAllDocxFromFolderAsync(fold, entries, state) ==
  IF fold # "ok" THEN <<>>
  ELSE DotnetSections(SelectSeq(entries, IsRootDocx), state, <<>>)

\* getAllSupportedFiles of v1.2.0: as that of v2.0.0 without any sort
RECURSIVE V12WalkRoot(_, _, _)
V12WalkRoot(entries, state, fileList) ==
  IF entries = <<>> THEN fileList
  ELSE LET e == Head(entries)
       IN IF e = "X" THEN fileList
          ELSE IF e = "s"
               THEN V12WalkRoot(Tail(entries), state,
                      PushSupported(IF state["C"].st # "absent"
                                    THEN <<"T", "C">> ELSE <<"T">>, fileList))
          ELSE IF IsSupported(e) THEN V12WalkRoot(Tail(entries), state, Append(fileList, e))
          ELSE V12WalkRoot(Tail(entries), state, fileList)

\* extractPdfText of v1.2.0: data.text as it is, '' when reading fails
V12ExtractPdfText(snapshot) ==
  IF snapshot.st = "ok" THEN snapshot.text ELSE <<>>

\* the loop of readAllDocxFromFolder of v1.2.0
RECURSIVE V12Sections(_, _, _)
V12Sections(allFiles, state, acc) ==
  IF allFiles = <<>> THEN acc
  ELSE LET f == Head(allFiles)
           content == IF extensionOf(f) = <<46, 112, 100, 102>>
                      THEN V12ExtractPdfText(state[f])
                      ELSE extractDocxText(state[f])
           dirInfo == IF directoryOf(f) # <<>>
                      THEN <<32, 40>> \o directoryOf(f) \o <<41>> ELSE <<>>
       IN V12Sections(Tail(allFiles), state,
            IF Trim(content) # <<>>
            THEN acc \o ContentFrom(fileNameOf(f), dirInfo, Trim(content))
            ELSE acc)

\* readAllDocxFromFolder of v1.2.0
V12ReadAllDocxFromFolder(fold, entries, state) ==
  IF fold # "ok" THEN <<>>
  ELSE V12Sections(V12WalkRoot(entries, state, <<>>), state, <<>>)

\* /\d{4}-\d{2}-\d{2}T\d{2}:\d{2}:\d{2}.*?Z/g of v1.2.0: up to the first Z
\* of the line
V12TimestampZ(s, i) ==
  IF IsDigit(At(s, i)) /\ IsoDateAt(s, i) /\ At(s, i + 10) = 84 /\ ClockAt(s, i + 11)
  THEN LET Z == {j \in (i + 19)..Len(s) :
                   s[j] = 90 /\ \A m \in (i + 19)..(j - 1) : IsDot(s[m])}
       IN IF Z = {} THEN 0
          ELSE (CHOOSE j \in Z : \A m \in Z : j <= m) - i + 1
  ELSE 0

\* \d{1,2} sep \d{1,2} sep \d{4} with d1 and d2 digits in its first two groups
V12DateOf(s, i, sep, d1, d2) ==
  IF /\ DigitsAt(s, i, d1) /\ At(s, i + d1) = sep
     /\ DigitsAt(s, i + d1 + 1, d2) /\ At(s, i + d1 + 1 + d2) = sep
     /\ DigitsAt(s, i + d1 + d2 + 2, 4)
  THEN d1 + d2 + 6 ELSE 0

V12Date(s, i, sep) ==
  IF ~IsDigit(At(s, i)) THEN 0
  ELSE IF V12DateOf(s, i, sep, 2, 2) > 0 THEN V12DateOf(s, i, sep, 2, 2)
  ELSE IF V12DateOf(s, i, sep, 2, 1) > 0 THEN V12DateOf(s, i, sep, 2, 1)
  ELSE IF V12DateOf(s, i, sep, 1, 2) > 0 THEN V12DateOf(s, i, sep, 1, 2)
  ELSE V12DateOf(s, i, sep, 1, 1)

\* /\d{1,2}\/\d{1,2}\/\d{4}/g and /\d{1,2}-\d{1,2}-\d{4}/g of v1.2.0
V12SlashDate(s, i) == V12Date(s, i, 47)
V12DashDate(s, i) == V12Date(s, i, 45)

\* /Page \d+ of \d+/g of v1.2.0
V12PageOf(s, i) ==
  IF ~LitAt(s, i, <<80, 97, 103, 101, 32>>) THEN 0
  ELSE LET n1 == RunOf(s, i + 5, IsDigit)
           n2 == RunOf(s, i + 5 + n1 + 4, IsDigit)
       IN IF n1 > 0 /\ LitAt(s, i + 5 + n1, <<32, 111, 102, 32>>) /\ n2 > 0
          THEN 5 + n1 + 4 + n2 ELSE 0

\* /Generated on .*$/gm of v1.2.0
V12GeneratedOn(s, i) ==
  IF LitAt(s, i, <<71, 101, 110, 101, 114, 97, 116, 101, 100, 32, 111, 110, 32>>)
  THEN 13 + RunOf(s, i + 13, IsDot) ELSE 0

\* normalizeDocumentContent of v1.2.0
V12NormalizeDocumentContent(content) ==
  ReplaceAll(
    ReplaceAll(
      Trim(CollapseWs(
        ReplaceAll(
          ReplaceAll(
            ReplaceAll(
              content,
              V12TimestampZ, <<91, 84, 73, 77, 69, 83, 84, 65, 77, 80, 93>>),
            V12SlashDate, <<91, 68, 65, 84, 69, 93>>),
          V12DashDate, <<91, 68, 65, 84, 69, 93>>))),
      V12PageOf, <<91, 80, 65, 71, 69, 93>>),
    V12GeneratedOn, <<91, 71, 69, 78, 69, 82, 65, 84, 69, 68, 95, 68, 65, 84, 69, 93>>)

\* getDocumentContent of bot-node: ten minutes
BotNodeGetDocumentContent(c, t) ==
  IF \/ ~Truthy(c.documentContent)
     \/ IsNull(c.lastDocumentLoad)
     \/ t - Val(c.lastDocumentLoad) > 10 * 60 * 1000
  THEN [documentContent |-> Some(BotNodeReadAllDocxFromFolder(folder, order, fs)),
        lastDocumentLoad |-> Some(t)]
  ELSE c

\* getDocumentContent of v1.2.0: one hour
V12GetDocumentContent(c, t) ==
  IF \/ ~Truthy(c.documentContent)
     \/ IsNull(c.lastDocumentLoad)
     \/ t - Val(c.lastDocumentLoad) > 60 * 60 * 1000
  THEN [documentContent |-> Some(V12ReadAllDocxFromFolder(folder, order, fs)),
        lastDocumentLoad |-> Some(t)]
  ELSE c

\* GetDocumentContentAsync: ten minutes, and an empty string counts as loaded
GetDocumentContentAsync(c, t) ==
  IF \/ IsNull(c.documentContent)
     \/ IsNull(c.lastDocumentLoad)
     \/ t - Val(c.lastDocumentLoad) > 10 * 60 * 1000
  THEN [documentContent |-> Some(ReadAllDocxFromFolderAsync(folder, order, fs)),
        lastDocumentLoad |-> Some(t)]
  ELSE c

\* getDocumentStats of v1.2.0 at the time t
V12GetDocumentStats(c, t) ==
  [lastLoaded |-> c.lastDocumentLoad,
   contentLength |-> IF Truthy(c.documentContent) THEN Len(Val(c.documentContent)) ELSE 0,
   hasContent |-> Truthy(c.documentContent),
   cacheAge |-> IF IsNull(c.lastDocumentLoad) THEN None
                ELSE Some(t - Val(c.lastDocumentLoad)),
   cacheExpired |-> IF IsNull(c.lastDocumentLoad) THEN TRUE
                    ELSE t - Val(c.lastDocumentLoad) > 10 * 60 * 1000]

\* the catch of handleChatRequest of bot-node
BotNodeErrorInfo(code) ==
  CASE code = "insufficient_quota" ->
         Failure("API quota exceeded. Please try again later.", 429)
    [] code = "invalid_api_key" -> Failure("Invalid API key.", 401)
    [] OTHER -> Failure("Something went wrong. Please try again.", 500)

\* the catch of handleChatRequest of v1.2.0
V12ErrorInfo(code) ==
  CASE code = "insufficient_quota" ->
         Failure("API quota exceeded. Please try again later.", 429)
    [] code = "invalid_api_key" -> Failure("Invalid API key.", 401)
    [] code = "model_not_found" -> Failure("AI model temporarily unavailable.", 503)
    [] code = "rate_limit_exceeded" ->
         Failure("Too many requests. Please wait a moment.", 429)
    [] OTHER -> Failure("Something went wrong. Please try again.", 500)

\* an exception of the .NET service: its message, and the provider codes
\* that occur in the message
IndexOutOfRangeException ==
  [message |-> "Index was outside the bounds of the array.", mentions |-> {}]
HttpRequestException ==
  [message |-> "No connection could be made.", mentions |-> {}]

\* the catch of HandleChatRequestAsync: error.Message.Contains(code)
DotnetErrorInfo(error) ==
  IF "insufficient_quota" \in error.mentions
  THEN Failure("API quota exceeded. Please try again later.", 429)
  ELSE IF "invalid_api_key" \in error.mentions
  THEN Failure("Invalid API key.", 401)
  ELSE Failure("Something went wrong. Please try again.", 500)

\* "No response received"
NoResponseReceived ==
  <<78, 111, 32, 114, 101, 115, 112, 111, 110, 115, 101, 32,
    114, 101, 99, 101, 105, 118, 101, 100>>

\* ChatAsync once PostAsync is over.  PostAsync throws only when there is no
\* response; the status of the response is not looked at, and the body of an
\* error response has no choices: Choices is null and the text is the
\* fallback.  An empty choices array makes Choices?[0] throw.
ChatAsyncResult(o) ==
  CASE o.kind = "answer" -> Success(Some(o.text))
    [] o.kind = "nochoice" -> DotnetErrorInfo(IndexOutOfRangeException)
    [] o.kind = "error" /\ o.code = "" -> DotnetErrorInfo(HttpRequestException)
    [] OTHER -> Success(Some(NoResponseReceived))

\* the chat route of bot-node/index.js
IndexHttpOf(r) ==
  IF r.success
  THEN [status |-> 200, response |-> r.response, error |-> ""]
  ELSE [status |-> IF r.statusCode = 0 THEN 500 ELSE r.statusCode,
        response |-> None, error |-> r.error]

\* ChatController.Chat: Ok(...) or StatusCode(500, ...)
ControllerHttpOf(r) ==
  IF r.success
  THEN [status |-> 200, response |-> r.response, error |-> ""]
  ELSE [status |-> 500, response |-> None, error |-> r.error]

\* the automatic 400 of [ApiController] for an invalid model
ValidationProblem ==
  [status |-> 400, response |-> None,
   error |-> "One or more validation errors occurred."]

Finished(v) ==
  vpc[v] = "idle" \/ vpc[v] = (IF v = "v12" THEN "answered" ELSE "replied")

\* the versions are separate servers whose steps commute: one order of their
\* steps is followed
Turn(v) ==
  \A i \in 1..Len(OtherVersions) :
    (\E j \in (i + 1)..Len(OtherVersions) : OtherVersions[j] = v)
      => Finished(OtherVersions[i])

VersionSet == {OtherVersions[i] : i \in 1..Len(OtherVersions)}

\* a client posts the same request to every version, and the provider will
\* treat each of them the same way
Post(s) ==
  /\ \A v \in VersionSet : Finished(v)
  /\ requests < MaxRequests
  /\ requests' = requests + 1
  /\ scenario' = Some(s)
  /\ vpc' = [v \in VersionSet |-> "posted"]
  /\ vresult' = [v \in VersionSet |-> None]
  /\ vhttp' = [v \in VersionSet |-> None]
  /\ UNCHANGED <<cache, clock, ticks, disk, locals, history, request, docContent,
                 uploadedPdfContent, payload, result, cacheStats, created, http,
                 outcome, vcache>>

VersionFrame ==
  UNCHANGED <<cache, clock, ticks, disk, locals, history, front, scenario>>

\* handleChatRequest of bot-node up to the completion call
BotNodeHandleChatRequest ==
  /\ vpc["botnode"] = "posted" /\ Turn("botnode")
  /\ IF PromptMissing(Val(scenario).prompt)
     THEN /\ vresult' = [vresult EXCEPT !["botnode"] = Some(Failure("Prompt is required.", 400))]
          /\ vpc' = [vpc EXCEPT !["botnode"] = "answered"]
          /\ UNCHANGED vcache
     ELSE /\ vcache' = [vcache EXCEPT !["botnode"] = BotNodeGetDocumentContent(@, clock)]
          /\ vpc' = [vpc EXCEPT !["botnode"] = "sent"]
          /\ UNCHANGED vresult
  /\ UNCHANGED vhttp
  /\ VersionFrame

\* the completion call of bot-node is over: the text, or the catch; without
\* a choice completion.choices[0].message throws a TypeError, which has no code
BotNodeCompletion ==
  /\ vpc["botnode"] = "sent"
  /\ LET o == Val(scenario).outcome
     IN vresult' = [vresult EXCEPT !["botnode"] =
                      Some(IF o.kind = "answer" THEN Success(Some(o.text))
                           ELSE IF o.kind = "nochoice" THEN BotNodeErrorInfo("")
                           ELSE BotNodeErrorInfo(o.code))]
  /\ vpc' = [vpc EXCEPT !["botnode"] = "answered"]
  /\ UNCHANGED <<vcache, vhttp>>
  /\ VersionFrame

\* the chat route of bot-node/index.js sends its response
BotNodeRouteReplies ==
  /\ vpc["botnode"] = "answered"
  /\ vhttp' = [vhttp EXCEPT !["botnode"] = Some(IndexHttpOf(Val(vresult["botnode"])))]
  /\ vpc' = [vpc EXCEPT !["botnode"] = "replied"]
  /\ UNCHANGED <<vcache, vresult>>
  /\ VersionFrame

\* handleChatRequest of v1.2.0 up to the completion call
V12HandleChatRequest ==
  /\ vpc["v12"] = "posted" /\ Turn("v12")
  /\ IF PromptMissing(Val(scenario).prompt)
     THEN /\ vresult' = [vresult EXCEPT !["v12"] = Some(Failure("Prompt is required.", 400))]
          /\ vpc' = [vpc EXCEPT !["v12"] = "answered"]
          /\ UNCHANGED vcache
     ELSE /\ vcache' = IF Val(scenario).useDocuments
                       THEN [vcache EXCEPT !["v12"] = V12GetDocumentContent(@, clock)]
                       ELSE vcache
          /\ vpc' = [vpc EXCEPT !["v12"] = "sent"]
          /\ UNCHANGED vresult
  /\ UNCHANGED vhttp
  /\ VersionFrame

\* the completion call of v1.2.0 is over
V12Completion ==
  /\ vpc["v12"] = "sent"
  /\ LET o == Val(scenario).outcome
     IN vresult' = [vresult EXCEPT !["v12"] =
                      Some(IF o.kind = "answer" THEN Success(Some(o.text))
                           ELSE IF o.kind = "nochoice" THEN V12ErrorInfo("")
                           ELSE V12ErrorInfo(o.code))]
  /\ vpc' = [vpc EXCEPT !["v12"] = "answered"]
  /\ UNCHANGED <<vcache, vhttp>>
  /\ VersionFrame

\* ChatController.Chat is called.  AddHttpClient<ChatbotService>() registers
\* the service as transient: every request has an instance of its own.  The
\* project file is not among the sources: where it enables nullable
\* reference types, Prompt is implicitly required and [ApiController]
\* answers a blank prompt by itself; both builds are followed.
ControllerChat ==
  /\ vpc["dotnet"] = "posted" /\ Turn("dotnet")
  /\ \E implicitRequired \in BOOLEAN :
       IF PromptMissing(Val(scenario).prompt)
       THEN IF implicitRequired
            THEN /\ vhttp' = [vhttp EXCEPT !["dotnet"] = Some(ValidationProblem)]
                 /\ vpc' = [vpc EXCEPT !["dotnet"] = "replied"]
                 /\ UNCHANGED <<vresult, vcache>>
            ELSE /\ vresult' = [vresult EXCEPT !["dotnet"] = Some(Failure("Prompt is required.", 400))]
                 /\ vpc' = [vpc EXCEPT !["dotnet"] = "answered"]
                 /\ vcache' = [vcache EXCEPT !["dotnet"] = NoInstance]
                 /\ UNCHANGED vhttp
       ELSE /\ vcache' = [vcache EXCEPT !["dotnet"] = GetDocumentContentAsync(NoInstance, clock)]
            /\ vpc' = [vpc EXCEPT !["dotnet"] = "sent"]
            /\ UNCHANGED <<vresult, vhttp>>
  /\ VersionFrame

\* PostAsync is over and HandleChatRequestAsync returns
DotnetCompletion ==
  /\ vpc["dotnet"] = "sent"
  /\ vresult' = [vresult EXCEPT !["dotnet"] = Some(ChatAsyncResult(Val(scenario).outcome))]
  /\ vpc' = [vpc EXCEPT !["dotnet"] = "answered"]
  /\ UNCHANGED <<vcache, vhttp>>
  /\ VersionFrame

\* ChatController.Chat returns its action result
ControllerReplies ==
  /\ vpc["dotnet"] = "answered"
  /\ vhttp' = [vhttp EXCEPT !["dotnet"] = Some(ControllerHttpOf(Val(vresult["dotnet"])))]
  /\ vpc' = [vpc EXCEPT !["dotnet"] = "replied"]
  /\ UNCHANGED <<vcache, vresult>>
  /\ VersionFrame

(***************************************************************************)
(* Specification SpecVersions: the same requests posted to the three other  *)
(* versions, one request after the other, on the folder of Init; between    *)
(* requests the clock advances and A.docx is damaged.                       *)
(***************************************************************************)
Scenarios == [prompt : Prompts, useDocuments : BOOLEAN, outcome : Outcomes]

Served == \A v \in VersionSet : Finished(v)

VersionsPost == \E s \in Scenarios : Post(s)
\* the clock advances by a little more than ten minutes, or than two hours
VersionsTick ==
  \E d \in {10 * 60 * 1000 + 1, cacheExpiry + 1} : Served /\ Tick(d) /\ UNCHANGED history
VersionsDamage == Served /\ DamageFile("A") /\ UNCHANGED history

NextVersions ==
  \/ VersionsPost
  \/ BotNodeHandleChatRequest
  \/ BotNodeCompletion
  \/ BotNodeRouteReplies
  \/ V12HandleChatRequest
  \/ V12Completion
  \/ ControllerChat
  \/ DotnetCompletion
  \/ ControllerReplies
  \/ VersionsTick
  \/ VersionsDamage

SpecVersions == Init /\ [][NextVersions]_vars

(***************************************************************************)
(* Definitions shared by the properties.                                    *)
(***************************************************************************)
\* p's reload completes in this step
Completes(p) == pc[p] = "loaded" /\ pc'[p] = "done"

\* p's call begins in this step, as getDocumentContentCached or as
\* refreshDocuments
Begins(p, o) == pc[p] = "idle" /\ pc'[p] # "idle" /\ op'[p] = o

\* the call p has run a reload
Reloaded(p) == dirSeen[p] # "none"

\* the sections of the files of a list, each from what was read of it
RECURSIVE SectionsOf(_, _, _)
SectionsOf(list, snapshots, acc) ==
  IF list = <<>> THEN acc
  ELSE SectionsOf(Tail(list), Tail(snapshots),
                  AddContent(acc, Head(list), ExtractContent(Head(list), Head(snapshots))))

\* the text of a whole reload: every file of the list read and taken in
WholeText(p) == normalizeDocumentContent(SectionsOf(files[p], seen[p], <<>>))

\* the text one undisturbed reload of the folder as it stands gives
TextOnDisk ==
  LET list == IF folder = "missing" THEN <<>> ELSE getAllSupportedFiles(folder, order, fs)
  IN normalizeDocumentContent(SectionsOf(list, [i \in 1..Len(list) |-> ReadFile(list[i])], <<>>))

\* the reload of p met a failure: no folder, no listing, or a file that did
\* not extract
ReloadFailed(p) ==
  \/ dirSeen[p] \in {"missing", "unreadable"}
  \/ \E i \in 1..Len(seen[p]) : seen[p][i].st # "ok"

(***************************************************************************)
(* C1 as stated: documentContent is never cleared and never replaced by the *)
(* result of a failed reload: whenever it changes, a reload that met no     *)
(* failure has put its extracted text there.                                *)
(***************************************************************************)
C1_NeverClearedNorLostOnFailure ==
  [][documentContent' # documentContent =>
       \E p \in Procs : /\ Completes(p)
                        /\ documentContent' = newContent[p]
                        /\ ~ReloadFailed(p)]_vars

(***************************************************************************)
(* C1 amended: documentContent is never partially updated.  Whenever it     *)
(* changes, either refreshDocuments has cleared it to null at its start, or *)
(* a completing reload has replaced it in one step by the whole text of its *)
(* run over every listed file (the empty text when the folder was missing   *)
(* or unreadable).                                                          *)
(***************************************************************************)
C1_WholeOrCleared ==
  [][documentContent' # documentContent =>
       \/ /\ documentContent' = None
          /\ \E p \in Procs : Begins(p, "refresh")
       \/ \E p \in Procs : /\ Completes(p)
                           /\ Len(seen[p]) = Len(files[p])
                           /\ documentContent' = Some(WholeText(p))]_vars

\* a failed reload over a missing folder has emptied the cache while another
\* request still holds the text that was cached before
C1_Witness ==
  \E p, q \in Procs :
    /\ pc[p] = "done" /\ Truthy(ret[p])
    /\ pc[q] = "done" /\ dirSeen[q] = "missing"
    /\ documentContent = Some(<<>>)

(***************************************************************************)
(* C3 as stated: once a reload has set lastDocumentLoad, a call of          *)
(* getDocumentContentCached starts a reload exactly when more than          *)
(* cacheExpiry has passed since then, whatever text the reload produced.    *)
(***************************************************************************)
C3_ReloadOnlyAfterExpiry ==
  [][\A p \in Procs :
       (Begins(p, "get") /\ ~IsNull(lastDocumentLoad)) =>
         ((pc'[p] # "done") <=> (clock - Val(lastDocumentLoad) > cacheExpiry))]_vars

(***************************************************************************)
(* C5: when a reload completes, documentContent and contentSignature are    *)
(* both replaced, by the new text and its signature, if that signature      *)
(* differs from the stored one, and both keep their values if it is equal.  *)
(***************************************************************************)
C5_ReplacedTogetherOrKept ==
  [][\A p \in Procs :
       Completes(p) =>
         LET sig == Some(generateContentSignature(Val(newContent[p])))
         IN IF sig # contentSignature
            THEN documentContent' = newContent[p] /\ contentSignature' = sig
            ELSE documentContent' = documentContent /\ contentSignature' = contentSignature]_vars

\* a reload has found a text other than the cached one under the same
\* signature and has kept the cached one
C5_Witness ==
  \E p \in Procs :
    /\ pc[p] = "done" /\ Reloaded(p)
    /\ Truthy(documentContent)
    /\ newContent[p] # documentContent
    /\ Some(generateContentSignature(Val(newContent[p]))) = contentSignature

(***************************************************************************)
(* C6: every reload that completes sets lastDocumentLoad to the time its    *)
(* call took as now, a non-null value, whether or not the signature         *)
(* changed, files failed or the folder exists.                              *)
(***************************************************************************)
C6_TimestampOnEveryReload ==
  [][\A p \in Procs : Completes(p) => lastDocumentLoad' = Some(now[p])]_vars

\* a later reload over a missing folder has set the timestamp
C6_Witness ==
  \E p \in Procs :
    /\ pc[p] = "done" /\ dirSeen[p] = "missing"
    /\ now[p] > 0
    /\ lastDocumentLoad = Some(now[p])

(***************************************************************************)
(* C4 as stated: a reload that follows a completed reload, the folder being *)
(* the same from the start of the first to the end of the second, leaves    *)
(* documentContent and contentSignature as the first reload left them.      *)
(***************************************************************************)
C4_SecondReloadChangesNothing ==
  [][\A p \in Procs :
       (Completes(p) /\ ver[p] = fsChanges /\ prev.ver = fsChanges) =>
         (documentContent' = prev.content /\ contentSignature' = prev.sig)]_vars

(***************************************************************************)
(* C7 as stated: the text of A.docx is replaced by another text while the   *)
(* cache holds the text of the folder, and refreshDocuments then reloads:   *)
(* afterwards documentContent and contentSignature both differ from what    *)
(* they were before the change.                                             *)
(***************************************************************************)
TextChangedThenForced(p) ==
  /\ Completes(p) /\ op[p] = "refresh"
  /\ fsChanges = 1 /\ ver[p] = 1
  /\ before.kind = "text" /\ ~IsNull(before.content)

C7_BothDiffer ==
  [][\A p \in Procs :
       TextChangedThenForced(p) =>
         (documentContent' # before.content /\ contentSignature' # before.sig)]_vars

(***************************************************************************)
(* C7 amended: after the forced reload documentContent is the normalized    *)
(* text of the folder as changed and contentSignature is its signature;     *)
(* documentContent differs from its old value when the normalized text      *)
(* changed, contentSignature when the two texts hash differently.           *)
(***************************************************************************)
C7_ForcedReloadTakesNewText ==
  [][\A p \in Procs :
       TextChangedThenForced(p) =>
         /\ documentContent' = Some(TextOnDisk)
         /\ contentSignature' = Some(generateContentSignature(TextOnDisk))
         /\ (TextOnDisk # Val(before.content) => documentContent' # before.content)
         /\ (generateContentSignature(TextOnDisk)
               # generateContentSignature(Val(before.content))
             => contentSignature' # before.sig)]_vars

\* the forced reload has replaced "...Aa" by "...BB" under the same signature
C7_Witness ==
  /\ pc["p1"] = "done" /\ op["p1"] = "refresh"
  /\ fsChanges = 1 /\ ver["p1"] = 1 /\ before.kind = "text"
  /\ ~IsNull(before.content)
  /\ documentContent = Some(TextOnDisk)
  /\ documentContent # before.content
  /\ contentSignature = before.sig

(***************************************************************************)
(* C8: over a folder that is missing, or that holds no supported document   *)
(* (only the lock file), every call of getDocumentContentCached and of      *)
(* refreshDocuments, the first and the later ones, returns the empty string *)
(* and none throws or returns null.                                         *)
(***************************************************************************)
NoDocuments == folder = "missing" \/ \A id \in Docs : fs[id].st = "absent"

C8_EmptyFolderGivesEmptyString ==
  \A p \in Procs :
    NoDocuments => /\ pc[p] # "threw"
                   /\ pc[p] = "done" => ret[p] = Some(<<>>)

\* the third call over a missing folder has returned ''
C8_Witness ==
  /\ folder = "missing" /\ calls = 3
  /\ pc["p1"] = "done" /\ op["p1"] = "get"
  /\ ret["p1"] = Some(<<>>)

(***************************************************************************)
(* C9: no call of getDocumentContentCached or refreshDocuments throws, and  *)
(* each that is over has returned a string, whatever the folder: missing,   *)
(* unreadable, with an entry whose stat fails, with damaged documents.      *)
(***************************************************************************)
C9_NeverThrows ==
  \A p \in Procs :
    /\ pc[p] # "threw"
    /\ pc[p] = "done" => ~IsNull(ret[p])

\* a forced reload that met a failing stat and a damaged document has
\* returned a string
C9_Witness ==
  /\ pc["p1"] = "done" /\ op["p1"] = "refresh"
  /\ Has(order, "X")
  /\ \E i \in 1..Len(seen["p1"]) : seen["p1"][i].st = "corrupt"
  /\ ~IsNull(ret["p1"])

(***************************************************************************)
(* C10 as stated: a reload in which a document failed to extract completes  *)
(* with the sections, in sorted order, of exactly the documents that        *)
(* extracted with text: its result is the normalized concatenation of the   *)
(* sections of its files taken in the order of their sort keys.             *)
(***************************************************************************)
RECURSIVE IndexOf(_, _, _)
IndexOf(list, e, i) ==
  IF i > Len(list) THEN 0 ELSE IF list[i] = e THEN i ELSE IndexOf(list, e, i + 1)

SortedWholeText(p) ==
  LET sorted == SortFileList(files[p])
  IN normalizeDocumentContent(
       SectionsOf(sorted,
                  [i \in 1..Len(sorted) |-> seen[p][IndexOf(files[p], sorted[i], 1)]],
                  <<>>))

C10_SortedSectionsOfTheSuccessful ==
  \A p \in Procs :
    (pc[p] = "loaded" /\ \E i \in 1..Len(seen[p]) : seen[p][i].st # "ok") =>
      /\ Len(seen[p]) = Len(files[p])
      /\ newContent[p] = Some(SortedWholeText(p))

(***************************************************************************)
(* C2 as stated: every call of handleChatRequest whose prompt is missing,   *)
(* empty or whitespace-only is answered 'Prompt is required.' / 400 in that *)
(* very step, whatever its other arguments are: no reload of the document   *)
(* cache is started and openai.chat.completions.create is not called.       *)
(***************************************************************************)
\* p's call of handleChatRequest begins in this step
Asks(p) == pc[p] = "idle" /\ op'[p] = "chat"

BlankPrompt(r) == IsNull(r.prompt) \/ Trim(Val(r.prompt)) = <<>>

NoConversation(r) ==
  r.messages.kind = "null" \/ r.messages = ArrayOf(<<>>)

\* the step answers 400 and touches nothing downstream
RejectedAtOnce(p) ==
  /\ pc'[p] = "answered"
  /\ result'[p] = Some(Failure("Prompt is required.", 400))
  /\ created' = created
  /\ payload'[p] = None
  /\ dirSeen'[p] = "none"
  /\ UNCHANGED cache

C11_SameSortedOrderForEveryListing ==
  \A p \in Procs :
    (dirSeen[p] = "ok" /\ pc[p] \in {"read", "parse", "loaded"}) =>
      files[p] = SortFileList(files[p])

(***************************************************************************)
(* C12: calls of getDocumentContentCached that overlap, each running its    *)
(* own reload over a folder that does not change meanwhile, leave in        *)
(* documentContent and contentSignature what one reload would have left     *)
(* there, started from the cache as the calls found it; and each of the     *)
(* calls returns that text.                                                 *)
(***************************************************************************)
\* what one reload of the folder as it stands leaves in the cache c
SingleReload(c) ==
  LET sig == Some(generateContentSignature(TextOnDisk))
  IN IF sig # c.sig THEN [content |-> Some(TextOnDisk), sig |-> sig]
     ELSE [content |-> c.content, sig |-> c.sig]

C12_OverlappingReloadsAsOne ==
  [][\A p \in Procs :
       Completes(p) =>
         /\ documentContent' = SingleReload(prev).content
         /\ contentSignature' = SingleReload(prev).sig
         /\ ret'[p] = SingleReload(prev).content]_vars

\* two reloads have overlapped, file by file, and both calls hold the text of
\* the folder, which is the cached one
C12_Witness ==
  /\ pc["p1"] = "done" /\ pc["p2"] = "done"
  /\ now["p1"] # now["p2"]
  /\ Len(seen["p1"]) = 2 /\ Len(seen["p2"]) = 2
  /\ Truthy(ret["p1"]) /\ ret["p1"] = ret["p2"]
  /\ documentContent = ret["p1"]
  /\ prev.content # documentContent

StatusByTable(prompt, o) ==
  IF PromptMissing(prompt) THEN 400
  ELSE IF o.kind = "answer" THEN 200
  ELSE IF o.kind = "nochoice" THEN 500
  ELSE CASE o.code = "insufficient_quota" -> 429
         [] o.code = "invalid_api_key" -> 401
         [] o.code = "model_not_found" -> 503
         [] o.code = "rate_limit_exceeded" -> 429
         [] OTHER -> 500

\* C14: in the Node versions a request that handleChatRequest has answered
\* has the status of the table (400 for a missing question, 429 for
\* insufficient_quota, 401 for invalid_api_key, 503 for model_not_found, 429
\* for rate_limit_exceeded, 500 for every other failure), and the HTTP
\* response of the route carries exactly the status code of the result.
C14_StatusByTableAndCarried ==
  \A v \in {"botnode", "v12"} :
    /\ (vpc[v] \in {"answered", "replied"} /\ ~Val(vresult[v]).success) =>
         Val(vresult[v]).statusCode =
           StatusByTable(Val(scenario).prompt, Val(scenario).outcome)
    /\ (v = "botnode" /\ vpc[v] = "replied" /\ ~Val(vresult[v]).success) =>
         Val(vhttp[v]).status = Val(vresult[v]).statusCode

(***************************************************************************)
(* C15: the categories of provider failure and what the user gets.          *)
(***************************************************************************)
\* the codes the completion call fails with in the model
FailureCodes ==
  {"insufficient_quota", "invalid_api_key", "model_not_found",
   "rate_limit_exceeded", "server_error", "", "constructor"}

\* quota exhausted, invalid credential, model unavailable and rate limited
\* are the four mapped codes; every other failure is unspecified
CategoryOf(code) ==
  IF code \in {"insufficient_quota", "invalid_api_key", "model_not_found",
               "rate_limit_exceeded"}
  THEN code ELSE "unspecified"

\* the completion call of p's request failed with a provider error and the
\* route has answered
ProviderFailed(p) ==
  pc[p] = "replied" /\ ~IsNull(outcome[p]) /\ Val(outcome[p]).kind = "error"

\* C15 as stated, the status being the status code: a provider failure gets
\* a status code that no failure of another category gets.
C15_DistinctStatusCodes ==
  \A p \in Procs : ProviderFailed(p) =>
    \A k \in FailureCodes :
      CategoryOf(k) # CategoryOf(Val(outcome[p]).code) =>
        Val(http[p]).status # HttpOf(errorInfo(k)).status

\* C15 amended: a provider failure gets a result (error message and status
\* code) that no failure of another category gets, and the HTTP status is
\* 429 for quota exhausted, 401 for invalid credential, 503 for model
\* unavailable, 429 for rate limited and 500 for an unspecified failure.
C15_DistinctResults ==
  \A p \in Procs : ProviderFailed(p) =>
    LET c == CategoryOf(Val(outcome[p]).code)
    IN /\ \A k \in FailureCodes :
            CategoryOf(k) # c => Val(result[p]) # errorInfo(k)
       /\ Val(http[p]).status =
            (CASE c = "insufficient_quota" -> 429
               [] c = "invalid_api_key" -> 401
               [] c = "model_not_found" -> 503
               [] c = "rate_limit_exceeded" -> 429
               [] OTHER -> 500)

\* a rate-limited request has been answered with 429, the status code of
\* quota exhausted too
C15_Witness ==
  /\ ProviderFailed("p1")
  /\ Val(outcome["p1"]).code = "rate_limit_exceeded"
  /\ Val(http["p1"]).status = 429
  /\ errorInfo("insufficient_quota").statusCode = 429
  /\ Val(result["p1"]).error # errorInfo("insufficient_quota").error

(***************************************************************************)
(* C16: what a failed request hands back.                                   *)
(***************************************************************************)
\* C16: a request that failed (rejected prompt, provider failure of any
\* kind, exception in the handler) is answered with a structured error: the
\* result has an error message and a status code, and the response of the
\* route carries that status and that message.
C16_StructuredErrorOnEveryFailure ==
  \A p \in Procs :
    (pc[p] = "replied" /\ ~Val(result[p]).success) =>
      /\ Val(result[p]).error # ""
      /\ Val(result[p]).statusCode # 0
      /\ Val(http[p]).error = Val(result[p]).error
      /\ Val(http[p]).status = Val(result[p]).statusCode

(***************************************************************************)
(* C17: no retry.                                                           *)
(***************************************************************************)
\* C17: the completion call is made at most once for each chat request:
\* openai.chat.completions.create is called only in the step that sends the
\* payload of a request, there are never more calls than requests, and when
\* the call comes back, failed or not, the request is answered in that very
\* step (a failure with its categorized error) and makes no further call.
C17_NoRetry ==
  [][/\ created' <= requests'
     /\ \A p \in Procs :
          /\ (pc[p] = "sent" /\ pc'[p] = "sent") => created' = created
          /\ (pc[p] = "sent" /\ pc'[p] # "sent") =>
               /\ pc'[p] = "answered"
               /\ created' = created
               /\ Val(outcome'[p]).kind # "answer" =>
                    (~Val(result'[p]).success
                     /\ Val(result'[p]) = errorInfo(Val(outcome'[p]).code))
          /\ pc[p] \in {"answered", "replied"} => created' = created
          /\ created' # created =>
               (created' = created + 1 /\ \E q \in Procs : pc[q] # "sent" /\ pc'[q] = "sent")]_vars

\* the one completion call of a request failed and the request has been
\* answered with the error
C17_Witness ==
  /\ pc["p1"] = "replied"
  /\ ~IsNull(outcome["p1"]) /\ Val(outcome["p1"]).kind = "error"
  /\ ~Val(result["p1"]).success
  /\ created = 1 /\ requests = 1

(***************************************************************************)
(* C18: the state shared between requests.                                  *)
(***************************************************************************)
\* C18 as stated: the three cache fields are the only state shared between
\* requests that handling chat requests changes; this.cacheStats, the other
\* field of the Chatbot that is written after construction, never changes.
C18_OnlyTheCacheFieldsChange ==
  [][cacheStats' = cacheStats]_vars

\* C18 amended: besides the three cache fields the Chatbot shares
\* this.cacheStats between requests.  It changes only when a completion
\* call comes back with usage: by one hit and the cached tokens, or by one
\* miss.  Everything else a request writes is its own and is gone when the
\* request has been answered.
C18_CacheFieldsAndCacheStats ==
  [][/\ cacheStats' # cacheStats =>
          \E p \in Procs :
            /\ pc[p] = "sent" /\ pc'[p] = "answered"
            /\ ~IsNull(Val(outcome'[p]).usage)
            /\ LET cached == Val(Val(outcome'[p]).usage).cached_tokens
               IN cacheStats' =
                    IF cached > 0
                    THEN [hits |-> cacheStats.hits + 1, misses |-> cacheStats.misses,
                          totalSavings |-> cacheStats.totalSavings + cached]
                    ELSE [hits |-> cacheStats.hits, misses |-> cacheStats.misses + 1,
                          totalSavings |-> cacheStats.totalSavings]
     /\ \A p \in Procs :
          (pc[p] = "replied" /\ pc'[p] = "idle") =>
            /\ IsNull(request'[p]) /\ IsNull(payload'[p]) /\ IsNull(result'[p])
            /\ IsNull(http'[p]) /\ IsNull(outcome'[p])
            /\ docContent'[p] = Some(<<>>) /\ uploadedPdfContent'[p] = <<>>
            /\ UNCHANGED <<cache, cacheStats>>]_vars

\* a request has been answered and is gone; the next request finds the hit
\* it left in cacheStats
C18_Witness ==
  /\ pc["p1"] = "sent"
  /\ requests = 2
  /\ cacheStats = [hits |-> 1, misses |-> 0, totalSavings |-> 1]

(***************************************************************************)
(* C19: who writes the cache fields.                                        *)
(***************************************************************************)
\* the text of the uploaded files of the model is "u"; no document of the
\* folder and no section header holds that letter
HoldsUploadedText(text) == \E i \in 1..Len(text) : text[i] = 117

\* C19: the three cache fields change only in the step in which a reload
\* completes, and then for a request that asked for the documents and was
\* not rejected; every other step (a rejected request, a request with
\* useDocuments = false, the extraction of an uploaded document, the
\* completion call of chat(), getDocumentStats, getCacheOptimizationTips)
\* leaves them unchanged.  The uploaded text never is part of
\* documentContent.
C19_OnlyReloadWritesTheCache ==
  [][/\ cache' # cache =>
          \E p \in Procs :
            /\ Completes(p)
            /\ Val(request[p]).useDocuments
            /\ ~PromptRequired(Val(request[p]).prompt, Val(request[p]).messages)
            /\ documentContent' = Some(WholeText(p))
     /\ ~IsNull(documentContent') => ~HoldsUploadedText(Val(documentContent'))]_vars

\* a request without the documents and with an uploaded file has been
\* answered, the statistics have been read, and the cache is as the reload
\* of the request before left it
C19_Witness ==
  /\ pc["p1"] = "told" /\ op["p1"] = "tips"
  /\ requests = 2
  /\ cacheStats.hits + cacheStats.misses = 2
  /\ documentContent = Some(TextOnDisk)
  /\ ~IsNull(lastDocumentLoad)

(***************************************************************************)
(* C20: the Node version and the .NET version.                              *)
(***************************************************************************)
\* C20: for the same request and the same behaviour of the provider, the
\* .NET ChatController with its ChatbotService answers as the Node server
\* (bot-node) with its Chatbot does: both succeed or both fail, and with
\* the same HTTP status.
C20_DotnetAnswersAsNode ==
  (vpc["botnode"] = "replied" /\ vpc["dotnet"] = "replied") =>
    /\ Val(vhttp["dotnet"]).status = Val(vhttp["botnode"]).status
    /\ IsNull(Val(vhttp["dotnet"]).response) = IsNull(Val(vhttp["botnode"]).response)

(***************************************************************************)
(* Specification SpecMask: one request after the other over a folder that   *)
(* holds A.docx alone, a text with volatile fields: either a "Generated on" *)
(* line and a page count, or an ISO timestamp and a calendar date.  The     *)
(* document is rewritten with other values in these fields and nothing else *)
(* changed.                                                                 *)
(***************************************************************************)
GeneratedValues == {<<77, 111, 110>>, <<53, 32, 112, 109>>}
PageValues == {<<49>>, <<49, 50>>}
TimestampValues == {<<50, 48, 50, 52, 45, 48, 49, 45, 49, 53, 84, 49, 48, 58, 50, 48, 58, 51, 48, 90>>, <<50, 48, 50, 53, 45, 48, 50, 45, 49, 54, 84, 49, 49, 58, 50, 49, 58, 51, 49, 46, 49, 50, 51, 90>>}
DateValues == {<<49, 47, 53, 47, 50, 48, 50, 52>>, <<49, 50, 45, 51, 49, 45, 50, 53>>, <<77, 97, 121, 32, 53, 44, 32, 50, 48, 50, 52>>}

ReportTexts ==
  {<<71, 101, 110, 101, 114, 97, 116, 101, 100, 32, 111, 110, 32>> \o g \o <<10, 80, 97, 103, 101, 32>> \o n \o <<32, 111, 102, 32, 50, 48>> :
     g \in GeneratedValues, n \in PageValues}

StampTexts == {t \o <<32>> \o d : t \in TimestampValues, d \in DateValues}

\* the texts that differ from text in their volatile fields only
SameButVolatile(text) == IF text \in ReportTexts THEN ReportTexts ELSE StampTexts

\* the folder at the start: A.docx with one of the texts
InitMask ==
  /\ InitCache
  /\ InitLocals
  /\ InitHistory
  /\ InitFront
  /\ InitVersions
  /\ clock = 0
  /\ ticks = 0
  /\ fsChanges = 0
  /\ folder = "ok"
  /\ order = <<"s", "A">>
  /\ fs \in {[id \in Docs |-> IF id = "A" THEN Holding(t) ELSE Absent] :
               t \in ReportTexts \cup StampTexts}

\* A.docx is rewritten with other values in its volatile fields
MaskRewrite ==
  \E t \in SameButVolatile(fs["A"].text) : WriteFile("A", t) /\ TrackFs("volatile")

NextMask ==
  \/ SeqGet
  \/ SeqRefresh
  \/ SeqReadDocx
  \/ SeqExtractDone
  \/ SeqResume
  \/ SeqReturn
  \/ SeqTick
  \/ MaskRewrite

SpecMask == InitMask /\ [][NextMask]_vars

Sent(p) == ~IsNull(payload[p])

CarriesPrompt(m, prompt) ==
  m.role = "user" /\ Len(m.content) > 0 /\ m.content[1] = Part("", prompt)

SystemPlaces(msgs) == {i \in 1..Len(msgs) : msgs[i].role = "system"}

WithHistory(r) == r.messages.kind = "array" /\ Len(r.messages.items) > 0

V12Loads == vcache'["v12"] # vcache["v12"]

C23_V12SortedAndNormalized ==
  [][V12Loads =>
       vcache'["v12"].documentContent =
         Some(IF folder # "ok" THEN <<>>
              ELSE V12NormalizeDocumentContent(
                     V12Sections(SortFileList(V12WalkRoot(order, fs, <<>>)), fs, <<>>)))]_vars

(***************************************************************************)
(* C24: in every interleaving of getDocumentContentCached and               *)
(* refreshDocuments, contentSignature and documentContent are both null or  *)
(* both set, and when set contentSignature is generateContentSignature of   *)
(* documentContent.                                                         *)
(***************************************************************************)
C24_SignatureOfContent ==
  /\ IsNull(documentContent) <=> IsNull(contentSignature)
  /\ ~IsNull(documentContent) =>
       contentSignature = Some(generateContentSignature(Val(documentContent)))

\* a call of getDocumentContentCached has put its text into the cache that a
\* refreshDocuments still in its reload had cleared
C24_Witness ==
  \E p, q \in Procs :
    /\ op[p] = "refresh" /\ InReload(p)
    /\ op[q] = "get" /\ pc[q] = "done" /\ Reloaded(q)
    /\ ~IsNull(documentContent)
    /\ contentSignature = Some(generateContentSignature(Val(documentContent)))

(***************************************************************************)
(* Specification SpecRace: two requests at a time on one Chatbot while      *)
(* A.docx is rewritten from "Aa" to "Ab", a text with another signature.    *)
(***************************************************************************)
RaceRewrite == WriteFile("A", <<65, 98>>) /\ UNCHANGED history

NextRace ==
  \/ \E p \in Procs : CallGet(p) /\ UNCHANGED history
  \/ \E p \in Procs : CallRefresh(p) /\ UNCHANGED history
  \/ \E p \in Procs : ReadDocx(p) /\ UNCHANGED history
  \/ \E p \in Procs : ExtractDone(p) /\ UNCHANGED history
  \/ \E p \in Procs : Resume(p) /\ UNCHANGED history
  \/ \E p \in Procs : Return(p) /\ UNCHANGED history
  \/ RaceRewrite

SpecRace == Init /\ [][NextRace]_vars

(***************************************************************************)
(* C25 as stated: two reloads overlap and the folder changes once between   *)
(* their reads, so that one of them read the folder as it now stands and    *)
(* the other read the older one: when both have completed, documentContent  *)
(* is the text of the one that read the folder as it now stands.            *)
(***************************************************************************)
ReadTheNewerFolder(q, p) ==
  /\ p # q
  /\ pc[p] = "done" /\ Reloaded(p) /\ ~ReloadFailed(p)
  /\ pc[q] = "done" /\ Reloaded(q) /\ ~ReloadFailed(q)
  /\ fsChanges = 1
  /\ WholeText(q) = TextOnDisk
  /\ WholeText(p) # TextOnDisk

C25_NewerContentKept ==
  \A p, q \in Procs :
    ReadTheNewerFolder(q, p) => documentContent = Some(WholeText(q))

(***************************************************************************)
(* C26 as stated: the load time never goes back: whenever a reload          *)
(* completes and lastDocumentLoad was set before, it is set to a time that  *)
(* is not earlier.  refreshDocuments, which clears it, is no completion of  *)
(* a reload.                                                                *)
(***************************************************************************)
C26_LoadTimeNeverGoesBack ==
  [][\A p \in Procs :
       (Completes(p) /\ ~IsNull(lastDocumentLoad)) =>
         (/\ ~IsNull(lastDocumentLoad')
          /\ Val(lastDocumentLoad') >= Val(lastDocumentLoad))]_vars

(***************************************************************************)
(* C27: while refreshDocuments is suspended in its reload, every call of    *)
(* getDocumentContentCached that returns gives a string: the empty string   *)
(* or the whole normalized text of a run over every listed document, never  *)
(* null and never a part of such a text.                                    *)
(***************************************************************************)
\* the text a run over the listed documents gives when it reads A.docx as
\* a and B.pdf as b
TextWith(a, b) ==
  LET state == [fs EXCEPT !["A"] = a, !["B"] = b]
      list == getAllSupportedFiles("ok", order, state)
  IN normalizeDocumentContent(
       SectionsOf(list, [i \in 1..Len(list) |-> state[list[i]]], <<>>))

\* the texts of the runs of the model: A.docx missing, damaged or with one
\* of its texts, B.pdf with its text or gone with the folder
WholeTexts ==
  {<<>>} \cup
  {TextWith(a, b) : a \in {Absent, Corrupt} \cup {Holding(t) : t \in TextsOf("A")},
                    b \in {Absent, Holding(<<98>>)}}

RefreshInFlight(p) == \E q \in Procs \ {p} : op[q] = "refresh" /\ InReload(q)

GetReturns(p) == pc[p] # "done" /\ pc'[p] = "done" /\ op'[p] = "get"

C27_WholeTextDuringRefresh ==
  [][\A p \in Procs :
       (GetReturns(p) /\ RefreshInFlight(p)) =>
         (/\ ~IsNull(ret'[p])
          /\ Val(ret'[p]) \in WholeTexts
          /\ (Val(ret'[p]) = <<>> \/ ret'[p] = documentContent')
          /\ documentContent' # documentContent =>
               /\ Len(seen[p]) = Len(files[p])
               /\ documentContent' = Some(WholeText(p)))]_vars

\* a call that began before refreshDocuments cleared the cache has returned
\* the text of the folder while refreshDocuments is still reloading
C27_Witness ==
  \E p, q \in Procs :
    /\ op[q] = "refresh" /\ InReload(q)
    /\ op[p] = "get" /\ pc[p] = "done" /\ Reloaded(p)
    /\ ~IsNull(ret[p]) /\ Val(ret[p]) # <<>>
    /\ ret[p] = Some(WholeText(p))

(***************************************************************************)
(* C28 as stated: an entry of the folder whose stat fails is left out of    *)
(* the file list and nothing else changes: a reload lists the files that    *)
(* the folder without that entry gives, in sorted order.                    *)
(***************************************************************************)
C28_FailingEntryOnlyOmitted ==
  \A p \in Procs :
    (dirSeen[p] = "ok" /\ pc[p] \in {"read", "parse", "loaded"}) =>
      /\ files[p] = getAllSupportedFiles("ok", Without(order, "X"), fs)
      /\ files[p] = SortFileList(files[p])

(***************************************************************************)
(* C29 as stated: getDocumentStats of v1.2.0 reports cacheExpired exactly   *)
(* when a call of getDocumentContent at that moment would reload because of *)
(* the age of the cache: the cache was never loaded, or it is older than    *)
(* the expiry time of getDocumentContent.                                   *)
(***************************************************************************)
\* the cache c loaded at the time t by getDocumentContent is another cache
\* although c holds text: the reload is due to its age
V12ReloadsForAge(c, t) ==
  V12GetDocumentContent([c EXCEPT !.documentContent = Some(<<120>>)], t)
    # [c EXCEPT !.documentContent = Some(<<120>>)]

C29_V12ExpiredWhenReloadDue ==
  V12GetDocumentStats(vcache["v12"], clock).cacheExpired
    <=> V12ReloadsForAge(vcache["v12"], clock)

(***************************************************************************)
(* C30: a request whose uploaded file cannot be extracted (a damaged PDF or *)
(* DOCX, or a file that is neither) is not failed by that: the extraction   *)
(* ends with the empty text and the one completion call of the request,     *)
(* whose payload holds nothing of the uploaded file; the request succeeds   *)
(* when that call gives an answer.                                          *)
(***************************************************************************)
FailingUpload(r) ==
  /\ UploadGiven(r)
  /\ r.upload.st # "ok" \/ ~UploadExtracts(r)

\* no message of the payload holds the part that introduces an uploaded text
NoUploadedContext(pl) ==
  \A i \in 1..Len(pl.messages) :
    \A j \in 1..Len(pl.messages[i].content) :
      pl.messages[i].content[j].lit \notin
        {"Use this data from ", "\n\nUse this data from "}

C30_FailedExtractionDoesNotFailTheRequest ==
  [][\A p \in Procs :
       (~IsNull(request'[p]) /\ FailingUpload(Val(request'[p]))) =>
         /\ (pc[p] = "upload" /\ pc'[p] # "upload") => pc'[p] = "sent"
         /\ created' # created =>
              /\ pc[p] # "sent" /\ pc'[p] = "sent"
              /\ created' = created + 1
              /\ uploadedPdfContent'[p] = <<>>
              /\ NoUploadedContext(Val(payload'[p]))
         /\ (pc[p] = "sent" /\ pc'[p] # "sent") =>
              /\ created' = created
              /\ ~IsNull(outcome'[p])
              /\ Val(outcome'[p]).kind = "answer" =>
                   result'[p] = Some(Success(Some(Val(outcome'[p]).text)))]_vars

\* the request with the damaged u.pdf has been answered with the text the
\* completion call gave, after one call
C30_Witness ==
  /\ ~IsNull(request["p1"])
  /\ Val(request["p1"]).upload.st = "corrupt"
  /\ UploadExtracts(Val(request["p1"]))
  /\ pc["p1"] = "answered"
  /\ created = 1
  /\ uploadedPdfContent["p1"] = <<>>
  /\ ~IsNull(result["p1"]) /\ Val(result["p1"]).success

====
